---- MODULE Spec2Model ----
(***************************************************************************)
(* USD1 daily report: one run-to-completion execution of main().           *)
(*                                                                         *)
(* The run is single-threaded.  Every outbound HTTP request is one step of *)
(* the model; what the upstream answers (a request failure, or a JSON      *)
(* payload of some shape) is the environment's choice.  The pure work      *)
(* that follows a response (unwrapping, locating the USD1 entry, building  *)
(* the record) happens in the step of that response.                       *)
(*                                                                         *)
(* Numbers: amounts are small naturals; rates are integers in basis        *)
(* points of the unit interval (293 stands for the fraction 0.0293).       *)
(* A request "fails" when requests raises a RequestException (connection   *)
(* error, timeout, non-2xx status via raise_for_status, undecodable body). *)
(***************************************************************************)
EXTENDS Integers, Sequences, FiniteSets, TLC

VARIABLES
    env,              \* the process environment: [token, chat], each a sequence
                      \*   (<<>> when the variable is unset, <<s>> when set to s)
    pc,               \* main's position
    adapter,          \* 1-based index into ADAPTERS of the adapter being run
    step,             \* position inside the running component
    retry,            \* locals of the running fetch_json / fetch_with_retry call
    done_call,        \* how the retry call that has just ended went
    stash,            \* locals an adapter keeps from one request to the next
    rows,             \* fetch_usd1_markets: rows
    stablecoin_data,  \* main: stablecoin_data
    aster_data,       \* main: aster_data
    message,          \* main: message
    posts,            \* number of POSTs made to the delivery endpoint
    post_status,      \* <<status>> of the delivery response, <<>> when none
    send_result,      \* <<b>>: what send_telegram_message returned, <<>> when none
    exit_code,        \* <<c>>: what main returned, <<>> while it runs
    order,            \* history: the phases begun and ended, in order
    requested,        \* history: the components that issued at least one GET
    invoked,          \* history: the adapters fetch_usd1_markets has called
    raised,           \* history: the adapters whose fetch_row raised to its caller
    excepted,         \* history: the adapters in whose run an exception reached
                      \*   fetch_row (caught there or not)
    skipped,          \* history: the adapters in whose run a request failure was
                      \*   swallowed below fetch_row's own handler
    failure,          \* history: the phase of main whose exception ended the run
    call,             \* a function called on its own: its name and arguments
    result            \* <<v>>: what that call returned, <<>> before it returns

vars == <<env, pc, adapter, step, retry, done_call, stash, rows, stablecoin_data,
          aster_data, message, posts, post_status, send_result, exit_code,
          order, requested, invoked, raised, excepted, skipped, failure,
          call, result>>

(***************************************************************************)
(* Bounds of the model.                                                    *)
(***************************************************************************)
MaxEntries == 2      \* longest list an upstream payload holds
MaxAmount == 2       \* largest amount an upstream payload reports

(***************************************************************************)
(* Python values.  Optional[T] is a sequence: None is <<>>, a value v is   *)
(* <<v>>.                                                                  *)
(***************************************************************************)
None == <<>>
Some(v) == <<v>>
\* x or 0.0
OrZero(x) == IF x = None THEN 0 ELSE x[1]
\* x or d, for a string x
OrElse(x, d) == IF x = None \/ x = Some("") THEN d ELSE x[1]

\* All sequences over S of length at most n.
SeqUpTo(S, n) == UNION {[1..k -> S] : k \in 0..n}

Amounts == 1..MaxAmount
OptAmounts == {None} \cup {Some(a) : a \in Amounts}

\* str.upper() on the symbols the payloads of this model use.
Upper(s) ==
    CASE s = "usd1" -> "USD1"
      [] s = "Usd1" -> "USD1"
      [] s = "usdt" -> "USDT"
      [] s = "u" -> "U"
      [] OTHER -> s

(***************************************************************************)
(* src/util/http.py: fetch_json, and src/stablecoins.py: fetch_with_retry. *)
(***************************************************************************)
MAX_RETRIES == 3
BACKOFF_BASE == 1
DEFAULT_RETRIES == 3
DEFAULT_BACKOFF_FACTOR == 2

\* A bug that doubles per attempt instead of raising 2 to the attempt.
sleep_time_linear(attempt_no) == BACKOFF_BASE * (2 * attempt_no)
\* fetch_json: sleep_time = BACKOFF_BASE * (2 ** attempt)
sleep_time(attempt_no) == BACKOFF_BASE * (2 ^ attempt_no)

\* A bug that multiplies the factor by the attempt.
wait_time_linear(attempt_no) == DEFAULT_BACKOFF_FACTOR * attempt_no
\* fetch_with_retry: wait_time = backoff_factor ** attempt
wait_time(attempt_no) == DEFAULT_BACKOFF_FACTOR ^ attempt_no

\* The locals of a retry loop as a call starts: attempt 0, nothing slept,
\* last_exception = None.
FreshCall ==
    [attempt |-> 0, asleep |-> FALSE, sleeps |-> <<>>, outcomes |-> <<>>,
     last_exception |-> None]

NoCall == [fn |-> "none", result |-> "none", attempts |-> 0, sleeps |-> <<>>,
           outcomes |-> <<>>, exc |-> None, returned |-> None]

\* The except branch of an attempt that is not the last: remember the
\* exception, then time.sleep.
RetryAfterFailure(r) ==
    [r EXCEPT !.asleep = TRUE,
              !.outcomes = Append(@, "fail"),
              !.last_exception = Some(r.attempt)]

\* time.sleep returns and the for loop takes the next attempt.
RetryAfterSleep(r, duration) ==
    [r EXCEPT !.asleep = FALSE,
              !.sleeps = Append(@, duration),
              !.attempt = @ + 1]

\* The call returns the JSON of the attempt that succeeded.
CallReturned(fn, r) ==
    [fn |-> fn, result |-> "return", attempts |-> r.attempt + 1,
     sleeps |-> r.sleeps, outcomes |-> Append(r.outcomes, "ok"),
     exc |-> None, returned |-> Some(r.attempt)]

\* The loop is exhausted: raise last_exception, which the except branch of
\* this last attempt has just set.
CallRaised(fn, r) ==
    [fn |-> fn, result |-> "raise", attempts |-> r.attempt + 1,
     sleeps |-> r.sleeps, outcomes |-> Append(r.outcomes, "fail"),
     exc |-> Some(r.attempt), returned |-> None]

(***************************************************************************)
(* src/schema.py: compact_amount and Row.                                  *)
(***************************************************************************)
\* An amount of whole units, kept in two parts to stay within the integers
\* of the checker: hi * 10^6 + lo with lo < 10^6, negated when neg.
Amount(neg, hi, lo) == Some([neg |-> neg, hi |-> hi, lo |-> lo])

\* A bug that leaves the threshold itself to the smaller unit.
AtLeast_above(x, hi, lo) == ~x.neg /\ (x.hi > hi \/ (x.hi = hi /\ x.lo > lo))
\* x >= hi * 10^6 + lo
AtLeast(x, hi, lo) == ~x.neg /\ (x.hi > hi \/ (x.hi = hi /\ x.lo >= lo))

\* The number of hundredths f"{v:.2f}" shows for v = (q + rem / (2 * half))
\* hundredths: a remainder above the half rounds up, an exact half goes to the
\* even neighbour.  (A half that binary floating point cannot hold exactly is
\* rounded by its nearest float instead; the amounts of this model have none.)
Hundredths(q, rem, half) ==
    IF rem > half \/ (rem = half /\ q % 2 = 1) THEN q + 1 ELSE q

\* h hundredths in decimal notation with two decimals.
Decimal2(h) ==
    ToString(h \div 100) \o "." \o (IF h % 100 < 10 THEN "0" ELSE "") \o
    ToString(h % 100)

\* lo in six digits.
SixDigits(lo) ==
    LET d == CHOOSE k \in 1..6 : lo < 10 ^ k /\ (k = 1 \/ lo >= 10 ^ (k - 1))
        zeros[k \in 0..6] == IF k = 0 THEN "" ELSE "0" \o zeros[k - 1]
    IN  zeros[6 - d] \o ToString(lo)

\* compact_amount(x), x None or an Amount.
compact_amount(x) ==
    IF x = None THEN "N/A"
    ELSE
        LET a == x[1]
        IN  IF AtLeast(a, 1000000, 0)                          \* x >= 1e12
            THEN Decimal2(Hundredths(a.hi \div 10000,
                            (a.hi % 10000) * 10 + (IF a.lo > 0 THEN 1 ELSE 0),
                            50000)) \o "T"
            ELSE IF AtLeast(a, 1000, 0)                        \* x >= 1e9
            THEN Decimal2(Hundredths(a.hi \div 10,
                            (a.hi % 10) * 1000000 + a.lo, 5000000)) \o "B"
            ELSE IF AtLeast(a, 1, 0)                           \* x >= 1e6
            THEN Decimal2(Hundredths(a.hi * 100 + a.lo \div 10000,
                            a.lo % 10000, 5000)) \o "M"
            ELSE IF AtLeast(a, 0, 1000)                        \* x >= 1e3
            THEN Decimal2(Hundredths(a.lo \div 10, a.lo % 10, 5)) \o "K"
            ELSE (IF a.neg THEN "-" ELSE "") \o
                 (IF a.hi = 0 THEN ToString(a.lo)
                  ELSE ToString(a.hi) \o SixDigits(a.lo)) \o ".00"

Row(protocol, total_supplied, supply_rate, total_borrowed, borrow_rate) ==
    [protocol |-> protocol, total_supplied |-> total_supplied,
     supply_rate |-> supply_rate, total_borrowed |-> total_borrowed,
     borrow_rate |-> borrow_rate]

\* The record every adapter builds for "no data": null amounts, "N/A" rates.
NullRow(protocol) == Row(protocol, None, "N/A", None, "N/A")

\* f"{x:.2f}%" for x = bp / 100, bp an integer number of hundredths.
Percent2(bp) ==
    LET a == IF bp < 0 THEN -bp ELSE bp
    IN  (IF bp < 0 THEN "-" ELSE "") \o ToString(a \div 100) \o "." \o
        (IF a % 100 < 10 THEN "0" ELSE "") \o ToString(a % 100) \o "%"

\* _format_percent(fraction) of wlfi.py, echelon.py and lista.py:
\* f"{fraction * 100:.2f}%", the fraction given in basis points.
_format_percent(fraction_bp) == Percent2(fraction_bp)

(***************************************************************************)
(* src/stablecoins.py: the stablecoin aggregator client.                   *)
(***************************************************************************)
DEFAULT_TOKENS == <<"USDT", "USDC", "USD1", "U">>

\* The entries of the aggregator's peggedAssets list: a non-dict entry, or a
\* coin with its symbol and its circulating peggedUSD value (None when the
\* snapshot has none).
CoinEntries ==
    {[dict |-> FALSE, symbol |-> "", circulating |-> None]} \cup
    [dict : {TRUE}, symbol : {"usd1", "DAI"},
     circulating : {None, Some(MaxAmount)}]

\* What the aggregator answers: a JSON value that is no dict, or a dict
\* whose peggedAssets is a list of entries.
StablecoinPayloads ==
    {[dict |-> FALSE, peggedAssets |-> <<>>]} \cup
    [dict : {TRUE}, peggedAssets : SeqUpTo(CoinEntries, MaxEntries)]

\* A bug that compares the symbols as they are spelled.
get_stablecoin_by_symbol_exact(stablecoins, symbol) ==
    LET n == Len(stablecoins)
        find[i \in 1..(n + 1)] ==
            IF i > n THEN 0
            ELSE IF ~stablecoins[i].dict THEN -1
            ELSE IF stablecoins[i].symbol = symbol THEN i
            ELSE find[i + 1]
    IN  find[1]
\* get_stablecoin_by_symbol: the index of the first coin whose symbol
\* matches case-insensitively, 0 when there is none, -1 when coin.get
\* raises on an entry that is no dict before a match is found.
get_stablecoin_by_symbol(stablecoins, symbol) ==
    LET n == Len(stablecoins)
        find[i \in 1..(n + 1)] ==
            IF i > n THEN 0
            ELSE IF ~stablecoins[i].dict THEN -1
            ELSE IF Upper(stablecoins[i].symbol) = Upper(symbol) THEN i
            ELSE find[i + 1]
    IN  find[1]

\* parse_stablecoin_metrics: symbol and market_cap_usd (the percent changes
\* and the display formatting of the row are not modelled).
parse_stablecoin_metrics(coin_data) ==
    [symbol |-> coin_data.symbol, market_cap_usd |-> coin_data.circulating]

\* get_stablecoin_data, after fetch_stablecoins returned the list: one row
\* per requested token found with a market cap, in request order.
\* [raised, rows]: raised when a lookup raised.
get_stablecoin_data(stablecoins) ==
    LET n == Len(DEFAULT_TOKENS)
        loop[t \in 1..(n + 1)] ==
            IF t > n THEN [raised |-> FALSE, rows |-> <<>>]
            ELSE
                LET i == get_stablecoin_by_symbol(stablecoins, DEFAULT_TOKENS[t])
                    rest == loop[t + 1]
                IN  IF i = -1 THEN [raised |-> TRUE, rows |-> <<>>]
                    ELSE IF i = 0 THEN rest
                    ELSE
                        LET metrics == parse_stablecoin_metrics(stablecoins[i])
                        IN  IF metrics.market_cap_usd = None THEN rest
                            ELSE [rest EXCEPT !.rows =
                                    <<[Token |-> metrics.symbol,
                                       market_cap_usd |-> metrics.market_cap_usd[1]]>>
                                    \o @]
    IN  loop[1]

(***************************************************************************)
(* src/adapters/__init__.py and src/main.py: the orchestrator.             *)
(***************************************************************************)
\* A registry with two entries exchanged.
ADAPTERS_exchanged == <<"WLFI Markets", "JustLend", "Echelon", "Kamino", "Lista">>
\* ADAPTERS.keys(), in registration (dict insertion) order.
ADAPTERS == <<"WLFI Markets", "Echelon", "JustLend", "Kamino", "Lista">>

\* The first request an adapter makes.
FirstStep(name) ==
    CASE name = "WLFI Markets" -> "tokens"
      [] name = "Echelon" -> "markets"
      [] name = "JustLend" -> "yieldInfos"
      [] name = "Kamino" -> "vault"
      [] name = "Lista" -> "list"

\* os.environ.get(name, "")
EnvGet(v) == IF v = None THEN "" ELSE v[1]
TELEGRAM_BOT_TOKEN == EnvGet(env.token)
TELEGRAM_CHAT_ID == EnvGet(env.chat)

\* A bug that asks for both values to be missing.
config_missing_both(token, chat) == token = "" /\ chat = ""
\* main: not TELEGRAM_BOT_TOKEN or not TELEGRAM_CHAT_ID
config_missing(token, chat) == token = "" \/ chat = ""

MainSequel(phase) ==
    CASE phase = "stablecoins" -> "markets"
      [] phase = "markets" -> "aster"
      [] phase = "aster" -> "format"
      [] phase = "format" -> "send"
      [] phase = "send" -> "done"

\* A bug that carries on after a fetch raised.
main_next_carries_on(phase, exception) ==
    IF exception /\ phase \in {"format", "send"} THEN "done" ELSE MainSequel(phase)
\* A bug that posts again when the POST raised.
main_next_posts_again(phase, exception) ==
    IF exception THEN (IF phase = "send" THEN "send" ELSE "done")
    ELSE MainSequel(phase)
\* main's try block: the statement after `phase`, or the except clause
\* (which returns 1) when `phase` raised.
main_next(phase, exception) ==
    IF exception THEN "done" ELSE MainSequel(phase)

Begin(name) == <<name, "begin">>
End(name) == <<name, "end">>

\* What order gains when main moves to position p.
Entering(p) ==
    CASE p = "markets" -> <<Begin(ADAPTERS[1])>>
      [] p = "done" -> <<>>
      [] OTHER -> <<Begin(p)>>

\* main's locals: dropped when main returns (p = "done"), else as given.
MainLocals(p, sd, rs, ad, msg) ==
    /\ stablecoin_data' = IF p = "done" THEN <<>> ELSE sd
    /\ rows' = IF p = "done" THEN <<>> ELSE rs
    /\ aster_data' = IF p = "done" THEN <<>> ELSE ad
    /\ message' = IF p = "done" THEN <<>> ELSE msg

\* step, adapter and retry as main moves to position p.
Enter(p) ==
    /\ pc' = p
    /\ adapter' = 1
    /\ step' = CASE p = "markets" -> FirstStep(ADAPTERS[1])
                 [] p = "done" -> "none"
                 [] OTHER -> "call"
    /\ retry' = FreshCall
    /\ stash' = <<>>

\* A phase of main other than the adapters' loop and the delivery ends,
\* normally or with an exception; sd, rs, ad, msg are main's locals then.
MainPhaseEnds(phase, exception, sd, rs, ad, msg) ==
    LET p == main_next(phase, exception)
    IN  /\ Enter(p)
        /\ MainLocals(p, sd, rs, ad, msg)
        /\ order' = order \o <<End(phase)>> \o Entering(p)
        /\ failure' = IF exception THEN phase ELSE failure
        /\ exit_code' = IF p = "done" THEN Some(1) ELSE exit_code

\* A bug that lets an adapter's exception end the loop and the run.
fetch_usd1_markets_next_aborts(i, exception) ==
    IF exception THEN [pc |-> "done", adapter |-> i]
    ELSE IF i < Len(ADAPTERS)
    THEN [pc |-> "markets", adapter |-> i + 1]
    ELSE [pc |-> main_next("markets", FALSE), adapter |-> i]
\* fetch_usd1_markets, lines 38-46: where the run stands once adapter i has
\* returned or raised.  The except clause prints and the for loop goes on:
\* the next adapter, or, after the last one, main's next statement.
fetch_usd1_markets_next(i, exception) ==
    IF i < Len(ADAPTERS)
    THEN [pc |-> "markets", adapter |-> i + 1]
    ELSE [pc |-> main_next("markets", FALSE), adapter |-> i]

\* fetch_usd1_markets, lines 39-44: rows after one adapter call.
fetch_usd1_markets_rows(rs, exception, row) ==
    IF exception THEN rs ELSE Append(rs, row)

\* An adapter issues a request.
AdapterRequests(name) ==
    /\ requested' = requested \cup {name}
    /\ invoked' = invoked \cup {name}

\* An adapter goes on to its next request.
AdapterContinues(name, next_step, locals) ==
    /\ AdapterRequests(name)
    /\ step' = next_step
    /\ stash' = locals
    /\ UNCHANGED <<pc, adapter, rows, stablecoin_data, aster_data, message,
                   exit_code, order, raised, excepted, failure>>

\* fetch_row ends.  out = [raises, exc, row]: it raises to
\* fetch_usd1_markets, or returns row; exc tells whether an exception
\* reached fetch_row's frame on the way.
AdapterEnds(name, out) ==
    LET nx == fetch_usd1_markets_next(adapter, out.raises)
    IN  /\ AdapterRequests(name)
        /\ MainLocals(nx.pc, stablecoin_data,
                      fetch_usd1_markets_rows(rows, out.raises, out.row),
                      aster_data, message)
        /\ raised' = IF out.raises THEN raised \cup {name} ELSE raised
        /\ excepted' = IF out.exc THEN excepted \cup {name} ELSE excepted
        /\ pc' = nx.pc
        /\ adapter' = nx.adapter
        /\ step' = CASE nx.pc = "markets" -> FirstStep(ADAPTERS[nx.adapter])
                     [] nx.pc = "done" -> "none"
                     [] OTHER -> "call"
        /\ stash' = <<>>
        /\ order' = order \o <<End(name)>> \o
                    (CASE nx.pc = "markets" -> <<Begin(ADAPTERS[nx.adapter])>>
                       [] nx.pc = "done" -> <<>>
                       [] OTHER -> <<Begin(nx.pc)>>)
        /\ exit_code' = IF nx.pc = "done" THEN Some(1) ELSE exit_code
        /\ failure' = IF nx.pc = "done" THEN "markets" ELSE failure

\* fetch_row returned row without any exception.
Returned(row) == [raises |-> FALSE, exc |-> FALSE, row |-> row]
\* A bug that reports zero amounts where the handler should report none.
Caught_zero_amounts(name) ==
    [raises |-> FALSE, exc |-> TRUE, row |-> Row(name, Some(0), "N/A", Some(0), "N/A")]
\* An exception reached fetch_row's except clause, which returned the null row.
Caught(name) == [raises |-> FALSE, exc |-> TRUE, row |-> NullRow(name)]
\* An exception left fetch_row.
Propagated(name) == [raises |-> TRUE, exc |-> TRUE, row |-> NullRow(name)]

Running(name) == pc = "markets" /\ ADAPTERS[adapter] = name

(***************************************************************************)
(* src/adapters/wlfi.py                                                    *)
(***************************************************************************)
\* "merkl" in s.lower(), on the labels and claim URLs of this model.
HasMerkl(s) == s \in {"Merkl rewards", "https://app.merkl.xyz/", "MERKL"}
\* "wlfi rewards" in s.lower(), on the labels of this model.
HasWlfiRewards(s) == s \in {"WLFI Rewards"}

WlfiNonDict ==
    [dict |-> FALSE, symbol |-> "", marketId |-> None,
     supplyLiquidity |-> None, borrowLiquidity |-> None]

\* The entries of dolomite.getTokens: a non-dict entry, another token, and
\* USD1 in several states.
WlfiTokenEntries ==
    {WlfiNonDict,
     [WlfiNonDict EXCEPT !.dict = TRUE, !.symbol = "USDT", !.marketId = Some(1),
        !.supplyLiquidity = Some(1), !.borrowLiquidity = Some(1)],
     [WlfiNonDict EXCEPT !.dict = TRUE, !.symbol = "USD1", !.marketId = Some(2),
        !.supplyLiquidity = Some(MaxAmount), !.borrowLiquidity = Some(1)],
     [WlfiNonDict EXCEPT !.dict = TRUE, !.symbol = "usd1", !.marketId = Some(2),
        !.supplyLiquidity = Some(MaxAmount), !.borrowLiquidity = Some(1)],
     [WlfiNonDict EXCEPT !.dict = TRUE, !.symbol = "USD1", !.marketId = None,
        !.supplyLiquidity = Some(MaxAmount), !.borrowLiquidity = Some(1)]}

WlfiPartNonDict ==
    [dict |-> FALSE, label |-> "", rewardClaimUrl |-> "", interestRate |-> None]

\* The outsideSupplyInterestRateParts lists of this model.
WlfiPartsLists ==
    {<<>>,
     <<[WlfiPartNonDict EXCEPT !.dict = TRUE, !.label = "Merkl rewards",
          !.interestRate = Some(481)]>>,
     <<WlfiPartNonDict,
       [WlfiPartNonDict EXCEPT !.dict = TRUE, !.label = "Points",
          !.interestRate = Some(100)]>>}

WlfiRateNonDict ==
    [dict |-> FALSE, marketId |-> None, supplyInterestRate |-> None,
     borrowInterestRate |-> None, outsideSupplyInterestRateParts |-> <<>>]

\* The entries of dolomite.getInterestRates; marketId is token.marketId
\* (None when token is no dict or has none).
WlfiRateEntries ==
    {WlfiRateNonDict,
     [WlfiRateNonDict EXCEPT !.dict = TRUE, !.marketId = Some(1),
        !.supplyInterestRate = Some(100), !.borrowInterestRate = Some(200)],
     [WlfiRateNonDict EXCEPT !.dict = TRUE, !.marketId = Some(2)]} \cup
    {[WlfiRateNonDict EXCEPT !.dict = TRUE, !.marketId = Some(2),
        !.supplyInterestRate = Some(293), !.borrowInterestRate = Some(500),
        !.outsideSupplyInterestRateParts = parts] : parts \in WlfiPartsLists}

\* What _trpc_json yields: unwraps is FALSE when payload["result"]["data"]
\* ["json"] raises; otherwise json is the list unwrapped.
TrpcPayloads(entries) ==
    {[unwraps |-> FALSE, json |-> <<>>]} \cup
    [unwraps : {TRUE}, json : SeqUpTo(entries, MaxEntries)]

\* A bug that counts every part that has a rate.
wlfi_incentive_all_parts(outside_parts) ==
    LET n == Len(outside_parts)
        sum[i \in 1..(n + 1)] ==
            IF i > n THEN 0
            ELSE IF outside_parts[i].dict /\ outside_parts[i].interestRate # None
            THEN outside_parts[i].interestRate[1] + sum[i + 1]
            ELSE sum[i + 1]
    IN  sum[1]
\* Lines 98-112: the sum of the eligible parts' interest rates.
wlfi_incentive(outside_parts) ==
    LET n == Len(outside_parts)
        sum[i \in 1..(n + 1)] ==
            IF i > n THEN 0
            ELSE
                LET part == outside_parts[i]
                IN  IF ~part.dict THEN sum[i + 1]
                    ELSE IF part.interestRate # None
                            /\ (HasMerkl(part.label) \/ HasMerkl(part.rewardClaimUrl)
                                \/ HasWlfiRewards(part.label))
                    THEN part.interestRate[1] + sum[i + 1]
                    ELSE sum[i + 1]
    IN  sum[1]

\* Lines 114-124: the supply rate string.
wlfi_supply_rate(base_supply, incentive) ==
    IF base_supply # None
    THEN IF incentive > 0
         THEN _format_percent(base_supply[1] + incentive) \o " (base " \o
              _format_percent(base_supply[1]) \o " + inc " \o
              _format_percent(incentive) \o ")"
         ELSE _format_percent(base_supply[1])
    ELSE "N/A"

\* Lines 56-137 of fetch_row, given the two unwrapped lists.
wlfi_row(tokens, rates) ==
    LET name == "WLFI Markets"
        \* lines 57-62: r.get raises on an entry that is no dict
        rates_ok == \A i \in 1..Len(rates) : rates[i].dict
        \* rate_by_market.get(mid): the last entry stored under mid
        rate_index(mid) ==
            LET at == {i \in 1..Len(rates) : rates[i].marketId = mid}
            IN  IF at = {} THEN 0 ELSE CHOOSE i \in at : \A j \in at : j <= i
        \* lines 67-72: 0 none, -1 t.get raised
        n == Len(tokens)
        find[i \in 1..(n + 1)] ==
            IF i > n THEN 0
            ELSE IF ~tokens[i].dict THEN -1
            ELSE IF Upper(tokens[i].symbol) = "USD1" THEN i
            ELSE find[i + 1]
        t == find[1]
    IN  IF ~rates_ok \/ t = -1 THEN Caught(name)
        ELSE IF t = 0 \/ tokens[t].marketId = None THEN Returned(NullRow(name))
        ELSE
            LET usd1_token == tokens[t]
                r == rate_index(usd1_token.marketId)
            IN  IF r = 0
                THEN Returned(Row(name, usd1_token.supplyLiquidity, "N/A",
                                  usd1_token.borrowLiquidity, "N/A"))
                ELSE
                    LET rate_obj == rates[r]
                        incentive ==
                            wlfi_incentive(rate_obj.outsideSupplyInterestRateParts)
                    IN  Returned(Row(name,
                            usd1_token.supplyLiquidity,
                            wlfi_supply_rate(rate_obj.supplyInterestRate, incentive),
                            usd1_token.borrowLiquidity,
                            IF rate_obj.borrowInterestRate # None
                            THEN _format_percent(rate_obj.borrowInterestRate[1])
                            ELSE "N/A"))

\* A bug that puts a failed GET of these adapters to sleep for another
\* attempt.
NoRetry_sleeps == /\ retry' = RetryAfterFailure(FreshCall) /\ done_call' = NoCall
NoRetry == /\ retry' = FreshCall /\ done_call' = NoCall

AdapterFrame == UNCHANGED <<call, result, env, posts, post_status, send_result>>

\* Line 53: the GET of the tokens endpoint fails, or its payload does not
\* unwrap.
WlfiTokensFails ==
    /\ Running("WLFI Markets") /\ step = "tokens"
    /\ AdapterEnds("WLFI Markets", Caught("WLFI Markets"))
    /\ NoRetry /\ AdapterFrame /\ UNCHANGED skipped

\* Line 53: the tokens endpoint answers with a list.
WlfiTokensOk ==
    /\ Running("WLFI Markets") /\ step = "tokens"
    /\ \E payload \in TrpcPayloads(WlfiTokenEntries) :
        /\ payload.unwraps
        /\ AdapterContinues("WLFI Markets", "rates", payload.json)
    /\ NoRetry /\ AdapterFrame /\ UNCHANGED skipped

\* Line 54: the GET of the rates endpoint fails, or its payload does not
\* unwrap.
WlfiRatesFails ==
    /\ Running("WLFI Markets") /\ step = "rates"
    /\ AdapterEnds("WLFI Markets", Caught("WLFI Markets"))
    /\ NoRetry /\ AdapterFrame /\ UNCHANGED skipped

\* Line 54 and what follows: the rates endpoint answers with a list.
WlfiRatesOk ==
    /\ Running("WLFI Markets") /\ step = "rates"
    /\ \E payload \in TrpcPayloads(WlfiRateEntries) :
        /\ payload.unwraps
        /\ AdapterEnds("WLFI Markets", wlfi_row(stash, payload.json))
    /\ NoRetry /\ AdapterFrame /\ UNCHANGED skipped

(***************************************************************************)
(* src/adapters/echelon.py                                                 *)
(***************************************************************************)
EchelonNonDict ==
    [dict |-> FALSE, symbol |-> "", faAddress |-> "", address |-> "",
     supplyApr |-> None, borrowApr |-> None,
     farmingApr |-> [supply |-> <<>>, borrow |-> <<>>]]

\* The entries of a farmingApr list: a non-dict entry, or a dict with its apr.
FarmNonDict == [dict |-> FALSE, apr |-> None]
Farm(apr) == [dict |-> TRUE, apr |-> apr]

\* The entries of data.assets.
EchelonAssetEntries ==
    {EchelonNonDict,
     [EchelonNonDict EXCEPT !.dict = TRUE, !.symbol = "APT", !.faAddress = "0xa",
        !.supplyApr = Some(100), !.borrowApr = Some(200)],
     [EchelonNonDict EXCEPT !.dict = TRUE, !.symbol = "USD1", !.faAddress = "0x1"],
     [EchelonNonDict EXCEPT !.dict = TRUE, !.symbol = "USD1", !.address = "0x1",
        !.supplyApr = Some(293), !.borrowApr = Some(500),
        !.farmingApr = [supply |-> <<Farm(Some(481)), FarmNonDict>>,
                        borrow |-> <<Farm(None), Farm(Some(200))>>]],
     [EchelonNonDict EXCEPT !.dict = TRUE, !.symbol = "usd1", !.faAddress = "0x1",
        !.supplyApr = Some(293), !.borrowApr = Some(500)]}

\* The entries of data.marketStats: pair is FALSE for an entry that is no
\* two-element list; otherwise the entry is [key, stats], stats a dict or not.
EchelonStatsEntries ==
    {[pair |-> FALSE, key |-> "", dict |-> FALSE,
      totalShares |-> None, totalLiability |-> None],
     [pair |-> TRUE, key |-> "0x1", dict |-> FALSE,
      totalShares |-> None, totalLiability |-> None],
     [pair |-> TRUE, key |-> "0x1", dict |-> TRUE,
      totalShares |-> Some(MaxAmount), totalLiability |-> Some(1)],
     [pair |-> TRUE, key |-> "0xa", dict |-> TRUE,
      totalShares |-> Some(1), totalLiability |-> Some(1)]}

\* What the markets endpoint answers: has_data is FALSE when root["data"]
\* raises or data.get does.
EchelonPayloads ==
    {[has_data |-> FALSE, marketStats |-> <<>>, assets |-> <<>>]} \cup
    [has_data : {TRUE},
     marketStats : SeqUpTo(EchelonStatsEntries, MaxEntries),
     assets : SeqUpTo(EchelonAssetEntries, MaxEntries)]

\* Lines 88-97: sum(_to_float(i.get("apr")) or 0.0 for i in ... if dict).
echelon_incentive(entries) ==
    LET n == Len(entries)
        sum[i \in 1..(n + 1)] ==
            IF i > n THEN 0
            ELSE IF entries[i].dict THEN OrZero(entries[i].apr) + sum[i + 1]
            ELSE sum[i + 1]
    IN  sum[1]

\* Lines 102-108.
echelon_supply_rate(lend_apr, inc_supply) ==
    IF inc_supply > 0
    THEN _format_percent(lend_apr + inc_supply) \o " (base " \o
         _format_percent(lend_apr) \o " + inc " \o _format_percent(inc_supply) \o ")"
    ELSE _format_percent(lend_apr)

\* Lines 110-116.
echelon_borrow_rate(borrow_apr, inc_borrow) ==
    IF inc_borrow > 0
    THEN _format_percent(borrow_apr - inc_borrow) \o " (borrow " \o
         _format_percent(borrow_apr) \o " - inc " \o _format_percent(inc_borrow) \o ")"
    ELSE _format_percent(borrow_apr)

\* Lines 41-124 of fetch_row, given the decoded response.
echelon_row(root) ==
    LET name == "Echelon"
        stats_raw == root.marketStats
        \* market_stats.get(k): the last pair stored under k
        stats_index(k) ==
            LET at == {i \in 1..Len(stats_raw) :
                         stats_raw[i].pair /\ stats_raw[i].key = k}
            IN  IF at = {} THEN 0 ELSE CHOOSE i \in at : \A j \in at : j <= i
        assets == root.assets
        found == {i \in 1..Len(assets) :
                    assets[i].dict /\ assets[i].symbol = "USD1"}
    IN  IF ~root.has_data THEN Caught(name)
        ELSE IF found = {} THEN Returned(NullRow(name))
        ELSE
            LET usd1_asset == assets[CHOOSE i \in found : \A j \in found : i <= j]
                stats_key == IF usd1_asset.faAddress # "" THEN usd1_asset.faAddress
                             ELSE usd1_asset.address
                k == stats_index(stats_key)
            IN  IF k = 0 THEN Returned(NullRow(name))
                ELSE IF ~stats_raw[k].dict THEN Caught(name)
                ELSE
                    LET stats == stats_raw[k]
                        lend_apr == OrZero(usd1_asset.supplyApr)
                        borrow_apr == OrZero(usd1_asset.borrowApr)
                        inc_supply == echelon_incentive(usd1_asset.farmingApr.supply)
                        inc_borrow == echelon_incentive(usd1_asset.farmingApr.borrow)
                    IN  Returned(Row(name,
                            stats.totalShares,
                            echelon_supply_rate(lend_apr, inc_supply),
                            stats.totalLiability,
                            echelon_borrow_rate(borrow_apr, inc_borrow)))

\* Lines 38-40: the GET fails.
EchelonFails ==
    /\ Running("Echelon") /\ step = "markets"
    /\ AdapterEnds("Echelon", Caught("Echelon"))
    /\ NoRetry /\ AdapterFrame /\ UNCHANGED skipped

\* Lines 38-124: the endpoint answers.
EchelonOk ==
    /\ Running("Echelon") /\ step = "markets"
    /\ \E root \in EchelonPayloads : AdapterEnds("Echelon", echelon_row(root))
    /\ NoRetry /\ AdapterFrame /\ UNCHANGED skipped

(***************************************************************************)
(* src/adapters/kamino.py                                                  *)
(***************************************************************************)
\* MARKETS.items(), in insertion order.
KAMINO_MARKETS == <<"Main Market", "Maple Market", "JLP Market">>

\* What the vault metrics endpoint answers: a JSON value that is no dict, or
\* the metrics (apyIncentives missing).
KaminoVaultPayloads ==
    {[dict |-> FALSE, tokensAvailableUsd |-> None, tokensInvestedUsd |-> None,
      apy |-> None, apyFarmRewards |-> None, apyIncentives |-> None],
     [dict |-> TRUE, tokensAvailableUsd |-> Some(1), tokensInvestedUsd |-> Some(MaxAmount),
      apy |-> Some(293), apyFarmRewards |-> Some(481), apyIncentives |-> None]}

KaminoReserveEntries ==
    {[dict |-> FALSE, liquidityToken |-> "", totalBorrow |-> None],
     [dict |-> TRUE, liquidityToken |-> "USDC", totalBorrow |-> Some(1)],
     [dict |-> TRUE, liquidityToken |-> "USD1", totalBorrow |-> Some(MaxAmount)],
     [dict |-> TRUE, liquidityToken |-> "usd1", totalBorrow |-> Some(MaxAmount)],
     [dict |-> TRUE, liquidityToken |-> "USD1", totalBorrow |-> None]}

\* What a reserves endpoint answers: a JSON value a for loop cannot iterate
\* (null, a number), or a list of entries.
KaminoReservesPayloads ==
    {[iterable |-> FALSE, list |-> <<>>]} \cup
    [iterable : {TRUE}, list : SeqUpTo(KaminoReserveEntries, MaxEntries)]

\* f"{x:.2f}%" on a rate the adapter has multiplied by 100.
KaminoPercent(rate_bp) == Percent2(rate_bp)

\* Lines 45-57 and 76: the locals after the vault metrics are read.
kamino_vault(m) ==
    LET lend_apy == OrZero(m.apy)
        wlfi_apy == OrZero(m.apyFarmRewards)
        kmno_apy == OrZero(m.apyIncentives)
    IN  [total_supplied_usd |-> OrZero(m.tokensAvailableUsd) + OrZero(m.tokensInvestedUsd),
         supply_rate_str |-> KaminoPercent(lend_apy + wlfi_apy + kmno_apy) \o " (lend " \o
                             KaminoPercent(lend_apy) \o " + WLFI " \o
                             KaminoPercent(wlfi_apy) \o " + KMNO " \o
                             KaminoPercent(kmno_apy) \o ")",
         borrow_rate_str |-> KaminoPercent(lend_apy),
         tot_borrow |-> 0,
         market |-> 1]

\* Lines 68-72: what one market's reserves add to tot_borrow.
kamino_total_borrow(reserves) ==
    LET found == {i \in 1..Len(reserves) :
                    reserves[i].dict /\ reserves[i].liquidityToken = "USD1"}
    IN  IF found = {} THEN 0
        ELSE OrZero(reserves[CHOOSE i \in found : \A j \in found : i <= j].totalBorrow)

\* Lines 78-84.
kamino_row(locals) ==
    Row("Kamino", Some(locals.total_supplied_usd), locals.supply_rate_str,
        Some(locals.tot_borrow), locals.borrow_rate_str)

\* Lines 41-43: the GET of the vault metrics fails.
KaminoVaultFails ==
    /\ Running("Kamino") /\ step = "vault"
    /\ AdapterEnds("Kamino", Caught("Kamino"))
    /\ NoRetry /\ AdapterFrame /\ UNCHANGED skipped

\* Lines 41-57: the vault metrics endpoint answers.
KaminoVaultOk ==
    /\ Running("Kamino") /\ step = "vault"
    /\ \E m \in KaminoVaultPayloads :
        IF m.dict
        THEN AdapterContinues("Kamino", "reserves", kamino_vault(m))
        ELSE AdapterEnds("Kamino", Caught("Kamino"))
    /\ NoRetry /\ AdapterFrame /\ UNCHANGED skipped

\* The for loop of lines 61-74 after one market: the next market, or the
\* return of lines 76-84.
KaminoAfterMarket(locals) ==
    IF locals.market < Len(KAMINO_MARKETS)
    THEN AdapterContinues("Kamino", "reserves", [locals EXCEPT !.market = @ + 1])
    ELSE AdapterEnds("Kamino", Returned(kamino_row(locals)))

\* Lines 64-65 and 73-74: a reserves GET raises a RequestException; the
\* market is passed over.
KaminoReservesFails ==
    /\ Running("Kamino") /\ step = "reserves"
    /\ KaminoAfterMarket(stash)
    /\ skipped' = skipped \cup {"Kamino"}
    /\ NoRetry /\ AdapterFrame

\* Lines 64-72: a reserves endpoint answers.
KaminoReservesOk ==
    /\ Running("Kamino") /\ step = "reserves"
    /\ \E reserves \in KaminoReservesPayloads :
        IF reserves.iterable
        THEN KaminoAfterMarket(
                [stash EXCEPT !.tot_borrow = @ + kamino_total_borrow(reserves.list)])
        ELSE AdapterEnds("Kamino", Caught("Kamino"))
    /\ NoRetry /\ AdapterFrame /\ UNCHANGED skipped

(***************************************************************************)
(* src/util/parse.py.  A JSON scalar handed to float() is None, or          *)
(* <<[parses, v]>>: parses is FALSE for text float() rejects, and v is the  *)
(* number in units of 0.0001.                                               *)
(***************************************************************************)
Num(v) == Some([parses |-> TRUE, v |-> v])
Text == Some([parses |-> FALSE, v |-> 0])

Abs(x) == IF x < 0 THEN -x ELSE x

\* 1.5, in units of 0.0001.
RATE_FRACTION_LIMIT == 15000

\* A bug that leaves the limit itself out of the fractions.
normalize_rate_below_limit(value) ==
    IF value = None THEN None
    ELSE IF ~value[1].parses THEN None
    ELSE LET rate == value[1].v
         IN  IF Abs(rate) < RATE_FRACTION_LIMIT THEN Some(rate * 100) ELSE Some(rate)
\* normalize_rate: None, or <<rate>> in percent, in units of 0.0001.
normalize_rate(value) ==
    IF value = None THEN None
    ELSE IF ~value[1].parses THEN None
    ELSE LET rate == value[1].v
         IN  IF Abs(rate) <= RATE_FRACTION_LIMIT THEN Some(rate * 100) ELSE Some(rate)

\* f"{x:.2f}" for x in units of 0.0001: rounded to hundredths, ties to even.
Fixed2(x) ==
    LET a == Abs(x)
        q == a \div 100
        r == a % 100
        h == IF r > 50 \/ (r = 50 /\ q % 2 = 1) THEN q + 1 ELSE q
    IN  (IF x < 0 THEN "-" ELSE "") \o ToString(h \div 100) \o "." \o
        (IF h % 100 < 10 THEN "0" ELSE "") \o ToString(h % 100)

\* A bug that shows the breakdown for a positive incentive only.
format_rate_positive_only(base, incentive, is_borrow) ==
    IF base = None THEN "N/A"
    ELSE IF incentive = None \/ incentive[1] <= 0 THEN Fixed2(base[1]) \o "%"
    ELSE IF is_borrow
    THEN Fixed2(base[1] - incentive[1]) \o "% (borrow " \o Fixed2(base[1]) \o
         "% - inc " \o Fixed2(incentive[1]) \o "%)"
    ELSE Fixed2(base[1] + incentive[1]) \o "% (base " \o Fixed2(base[1]) \o
         "% + inc " \o Fixed2(incentive[1]) \o "%)"
\* format_rate(base, incentive, is_borrow); base and incentive are None or
\* <<percent>>.
format_rate(base, incentive, is_borrow) ==
    IF base = None THEN "N/A"
    ELSE IF incentive = None \/ incentive = Some(0) THEN Fixed2(base[1]) \o "%"
    ELSE IF is_borrow
    THEN Fixed2(base[1] - incentive[1]) \o "% (borrow " \o Fixed2(base[1]) \o
         "% - inc " \o Fixed2(incentive[1]) \o "%)"
    ELSE Fixed2(base[1] + incentive[1]) \o "% (base " \o Fixed2(base[1]) \o
         "% + inc " \o Fixed2(incentive[1]) \o "%)"

(***************************************************************************)
(* src/adapters/justlend.py                                                *)
(***************************************************************************)
\* collateralSymbol is <<s>>, <<"">> when the key is absent, None when it is
\* null.
JustLendNonDict ==
    [dict |-> FALSE, collateralSymbol |-> Some(""), depositedUSD |-> None,
     borrowedUSD |-> None, depositedAPY |-> None,
     underlyingIncrementApy |-> None, borrowedAPY |-> None]

JustLendUsd1(symbol, inc) ==
    [JustLendNonDict EXCEPT !.dict = TRUE, !.collateralSymbol = Some(symbol),
        !.depositedUSD = Some(MaxAmount), !.borrowedUSD = Some(1),
        !.depositedAPY = Num(293), !.underlyingIncrementApy = inc,
        !.borrowedAPY = Num(77300)]

\* The entries of data.assetList.
JustLendEntries ==
    {JustLendNonDict,
     [JustLendNonDict EXCEPT !.dict = TRUE, !.collateralSymbol = None],
     [JustLendNonDict EXCEPT !.dict = TRUE, !.collateralSymbol = Some("USDT"),
        !.depositedUSD = Some(1), !.depositedAPY = Num(100)],
     [JustLendNonDict EXCEPT !.dict = TRUE, !.collateralSymbol = Some("USD1"),
        !.depositedAPY = Text],
     JustLendUsd1("USD1", None),
     JustLendUsd1("USD1", Num(481)),
     JustLendUsd1("usd1", Num(0))}

\* What safe_get(data, "data", "assetList", default=[]) yields: a value a
\* for loop cannot iterate (null, a number), or a list.
JustLendPayloads ==
    {[iterable |-> FALSE, assetList |-> <<>>]} \cup
    [iterable : {TRUE}, assetList : SeqUpTo(JustLendEntries, MaxEntries)]

\* _extract_supply_rate
_extract_supply_rate(market) ==
    LET base_rate == IF market.depositedAPY # None
                     THEN normalize_rate(market.depositedAPY) ELSE None
        incentive_rate == IF market.underlyingIncrementApy # None
                          THEN normalize_rate(market.underlyingIncrementApy)
                          ELSE None
    IN  format_rate(base_rate, incentive_rate, FALSE)

\* _extract_borrow_rate
_extract_borrow_rate(market) ==
    LET base_rate == IF market.borrowedAPY # None
                     THEN normalize_rate(market.borrowedAPY) ELSE None
    IN  format_rate(base_rate, None, FALSE)

\* Lines 20-50 of fetch_row, given what fetch_json returned.  No handler
\* surrounds them: an exception leaves fetch_row.
justlend_row(data) ==
    LET name == "JustLend"
        asset_list == data.assetList
        n == Len(asset_list)
        \* lines 23-28: 0 none, -1 .upper() raised on a null symbol
        find[i \in 1..(n + 1)] ==
            IF i > n THEN 0
            ELSE IF ~asset_list[i].dict THEN find[i + 1]
            ELSE IF asset_list[i].collateralSymbol = None THEN -1
            ELSE IF Upper(asset_list[i].collateralSymbol[1]) = "USD1" THEN i
            ELSE find[i + 1]
        m == find[1]
    IN  IF ~data.iterable \/ m = -1 THEN Propagated(name)
        ELSE IF m = 0 THEN Returned(NullRow(name))
        ELSE LET usd1_market == asset_list[m]
             IN  Returned(Row(name,
                     usd1_market.depositedUSD,
                     _extract_supply_rate(usd1_market),
                     usd1_market.borrowedUSD,
                     _extract_borrow_rate(usd1_market)))

\* fetch_json, lines 62-68: an attempt raises a RequestException and another
\* attempt is left.
FetchJsonRetries(name) ==
    /\ Running(name) /\ ~retry.asleep
    /\ retry.attempt < MAX_RETRIES - 1
    /\ retry' = RetryAfterFailure(retry)
    /\ done_call' = NoCall
    /\ AdapterRequests(name)
    /\ UNCHANGED <<pc, adapter, step, stash, rows, stablecoin_data, aster_data,
                   message, exit_code, order, raised, excepted, skipped, failure>>
    /\ AdapterFrame

\* fetch_json, line 68: time.sleep(sleep_time).
FetchJsonSleep ==
    /\ pc = "markets" /\ retry.asleep
    /\ retry' = RetryAfterSleep(retry, sleep_time(retry.attempt))
    /\ UNCHANGED <<call, result, env, pc, adapter, step, done_call, stash, rows,
                   stablecoin_data, aster_data, message, posts, post_status,
                   send_result, exit_code, order, requested, invoked, raised,
                   excepted, skipped, failure>>

\* The last attempt of a fetch_json call is the one numbered MAX_RETRIES - 1.
LastAttempt == retry.attempt >= MAX_RETRIES - 1

\* Line 18: an attempt fails and fetch_json tries again.
JustLendRetries == step = "yieldInfos" /\ FetchJsonRetries("JustLend")

\* Line 18: the last attempt fails; fetch_json raises, and so does fetch_row.
JustLendFails ==
    /\ Running("JustLend") /\ step = "yieldInfos" /\ ~retry.asleep
    /\ LastAttempt
    /\ done_call' = CallRaised("fetch_json", retry)
    /\ retry' = FreshCall
    /\ AdapterEnds("JustLend", Propagated("JustLend"))
    /\ AdapterFrame /\ UNCHANGED skipped

\* Lines 18-50: an attempt succeeds.
JustLendOk ==
    /\ Running("JustLend") /\ step = "yieldInfos" /\ ~retry.asleep
    /\ retry.attempt < MAX_RETRIES
    /\ done_call' = CallReturned("fetch_json", retry)
    /\ retry' = FreshCall
    /\ \E data \in JustLendPayloads : AdapterEnds("JustLend", justlend_row(data))
    /\ AdapterFrame /\ UNCHANGED skipped

(***************************************************************************)
(* Python's list.sort(key=..., reverse=True): descending, and stable (equal *)
(* keys keep their order); keys[i] is the key of seq[i].                    *)
(***************************************************************************)
SortDescending(seq, keys) ==
    LET n == Len(seq)
        insert(sorted, i) ==
            LET p == Cardinality({j \in 1..Len(sorted) : keys[sorted[j]] >= keys[i]})
            IN  SubSeq(sorted, 1, p) \o <<i>> \o SubSeq(sorted, p + 1, Len(sorted))
        upto[i \in 0..n] == IF i = 0 THEN <<>> ELSE insert(upto[i - 1], i)
    IN  [k \in 1..n |-> seq[upto[n][k]]]

SeqMin(seq) == CHOOSE x \in {seq[i] : i \in 1..Len(seq)} :
                   \A j \in 1..Len(seq) : x <= seq[j]
SeqMax(seq) == CHOOSE x \in {seq[i] : i \in 1..Len(seq)} :
                   \A j \in 1..Len(seq) : x >= seq[j]

(***************************************************************************)
(* src/adapters/lista.py                                                   *)
(***************************************************************************)
\* The target vault's address, shortened.
TARGET_VAULT_ADDRESS == "0xfa27"
TOP_N_MARKETS == 5

\* str.lower() on the addresses of this model.
Lower(s) == IF s = "0xFA27" THEN "0xfa27" ELSE s

\* has_address tells whether the entry has the key "address"; address is
\* None when the key is absent or its value null.  assetSymbol is None when
\* absent or null.  utilization is a whole number (1 for a fully lent vault).
ListaVaultNonDict ==
    [dict |-> FALSE, has_address |-> FALSE, address |-> None, assetSymbol |-> None,
     deposits |-> None, apy |-> None, utilization |-> None]

\* The entries of the vault list.
ListaVaultEntries ==
    {ListaVaultNonDict,
     [ListaVaultNonDict EXCEPT !.dict = TRUE, !.has_address = TRUE,
        !.address = Some("0xbeef"),
        !.assetSymbol = Some("USDT"), !.deposits = Some(1), !.apy = Some(100),
        !.utilization = Some(1)],
     [ListaVaultNonDict EXCEPT !.dict = TRUE, !.has_address = TRUE,
        !.address = Some("0xFA27"),
        !.assetSymbol = Some("lisUSD"), !.deposits = Some(MaxAmount),
        !.apy = Some(293), !.utilization = Some(1)],
     [ListaVaultNonDict EXCEPT !.dict = TRUE, !.assetSymbol = Some("usd1"),
        !.deposits = Some(MaxAmount), !.apy = Some(293), !.utilization = Some(1)],
     [ListaVaultNonDict EXCEPT !.dict = TRUE, !.has_address = TRUE,
        !.assetSymbol = Some("USD1"),
        !.deposits = Some(MaxAmount), !.apy = Some(293), !.utilization = Some(1)]}

\* The entries of the allocation list.
ListaMarketEntries ==
    {[dict |-> FALSE, allocation |-> None, borrowRate |-> None],
     [dict |-> TRUE, allocation |-> Some(2), borrowRate |-> Some(500)],
     [dict |-> TRUE, allocation |-> Some(1), borrowRate |-> Some(300)]}

\* What either endpoint answers: a JSON value whose .get raises, or a dict
\* whose data.list is a list of entries.
ListaPayloads(entries) ==
    {[dict |-> FALSE, list |-> <<>>]} \cup
    [dict : {TRUE}, list : SeqUpTo(entries, MaxEntries)]

\* A bug that takes the first vault of the list, whatever it is.
_find_usd1_vault_first(vaults) ==
    IF vaults = <<>> THEN 0 ELSE IF ~vaults[1].dict THEN -1 ELSE 1
\* _find_usd1_vault: the index of the first vault matching by address or by
\* asset symbol, 0 when there is none, -1 when vault.get raises.
_find_usd1_vault(vaults) ==
    LET n == Len(vaults)
        find[i \in 1..(n + 1)] ==
            IF i > n THEN 0
            ELSE IF ~vaults[i].dict THEN -1
            ELSE IF Lower(OrElse(vaults[i].address, "")) = Lower(TARGET_VAULT_ADDRESS)
            THEN i
            ELSE IF Upper(OrElse(vaults[i].assetSymbol, "")) = "USD1" THEN i
            ELSE find[i + 1]
    IN  find[1]

\* _compute_borrow_rate_range: <<string>>, or None when m.get raises on a
\* market that is no dict.
_compute_borrow_rate_range(markets, top_n) ==
    IF markets = <<>> THEN Some("N/A")
    ELSE IF \E i \in 1..Len(markets) : ~markets[i].dict THEN None
    ELSE
        LET parsed == SelectSeq(markets,
                        LAMBDA m : m.allocation # None /\ m.borrowRate # None)
            by_allocation == [i \in 1..Len(parsed) |-> parsed[i].allocation[1]]
            sorted == SortDescending(parsed, by_allocation)
            top_markets == SubSeq(sorted, 1, IF Len(sorted) < top_n
                                             THEN Len(sorted) ELSE top_n)
            borrow_rates == [i \in 1..Len(top_markets) |-> top_markets[i].borrowRate[1]]
        IN  IF parsed = <<>> THEN Some("N/A")
            ELSE Some(Percent2(SeqMin(borrow_rates)) \o "-" \o
                      Percent2(SeqMax(borrow_rates)))

\* Line 98 and line 109: usd1_vault.get("address", TARGET_VAULT_ADDRESS) as
\* the f-string of the allocation URL writes it.  The default stands in for
\* an absent key only: a null address is written "None".
vault_address(usd1_vault) ==
    IF ~usd1_vault.has_address THEN TARGET_VAULT_ADDRESS
    ELSE IF usd1_vault.address = None THEN "None"
    ELSE usd1_vault.address[1]

\* Lines 98-107: the locals kept while the allocation is fetched.
lista_vault(usd1_vault) ==
    [vault_address |-> vault_address(usd1_vault),
     deposits |-> usd1_vault.deposits,
     total_borrowed |-> IF usd1_vault.deposits # None /\ usd1_vault.utilization # None
                        THEN Some(usd1_vault.deposits[1] * usd1_vault.utilization[1])
                        ELSE None,
     supply_rate_str |-> IF usd1_vault.apy # None
                         THEN _format_percent(usd1_vault.apy[1]) ELSE "N/A"]

\* Lines 116-125, given the allocation response.
lista_row(locals, allocation_data) ==
    LET range == IF allocation_data.dict
                 THEN _compute_borrow_rate_range(allocation_data.list, TOP_N_MARKETS)
                 ELSE None
    IN  IF range = None THEN Caught("Lista")
        ELSE Returned(Row("Lista", locals.deposits, locals.supply_rate_str,
                          locals.total_borrowed, range[1]))

\* Line 84 or 110: an attempt fails and fetch_json tries again.
ListaRetries == step \in {"list", "allocation"} /\ FetchJsonRetries("Lista")

\* Line 84 or 110: the last attempt fails; fetch_json raises into the
\* except clause of fetch_row.
ListaFails ==
    /\ Running("Lista") /\ step \in {"list", "allocation"} /\ ~retry.asleep
    /\ LastAttempt
    /\ done_call' = CallRaised("fetch_json", retry)
    /\ retry' = FreshCall
    /\ AdapterEnds("Lista", Caught("Lista"))
    /\ AdapterFrame /\ UNCHANGED skipped

\* Lines 84-107: an attempt on the vault list succeeds.
ListaListOk ==
    /\ Running("Lista") /\ step = "list" /\ ~retry.asleep
    /\ retry.attempt < MAX_RETRIES
    /\ done_call' = CallReturned("fetch_json", retry)
    /\ retry' = FreshCall
    /\ \E vault_data \in ListaPayloads(ListaVaultEntries) :
        LET v == IF vault_data.dict THEN _find_usd1_vault(vault_data.list) ELSE -1
        IN  IF v = -1 THEN AdapterEnds("Lista", Caught("Lista"))
            ELSE IF v = 0 THEN AdapterEnds("Lista", Returned(NullRow("Lista")))
            ELSE AdapterContinues("Lista", "allocation",
                                  lista_vault(vault_data.list[v]))
    /\ AdapterFrame /\ UNCHANGED skipped

\* Lines 110-125: an attempt on the vault allocation succeeds.
ListaAllocationOk ==
    /\ Running("Lista") /\ step = "allocation" /\ ~retry.asleep
    /\ retry.attempt < MAX_RETRIES
    /\ done_call' = CallReturned("fetch_json", retry)
    /\ retry' = FreshCall
    /\ \E allocation_data \in ListaPayloads(ListaMarketEntries) :
        AdapterEnds("Lista", lista_row(stash, allocation_data))
    /\ AdapterFrame /\ UNCHANGED skipped

(***************************************************************************)
(* src/main.py: the exchange pairs, the formatter, the delivery.           *)
(***************************************************************************)
\* A bug that looks for the symbol in any case.
HasUSD1_any_case(label) ==
    label \in {"USD1/USDT", "BTC/USD1", "USD1/BNB", "usd1/USDT"}
\* "USD1" in label, on the labels of this model.
HasUSD1(label) == label \in {"USD1/USDT", "BTC/USD1", "USD1/BNB"}

\* The entries of data.marketPairs: an entry whose p["marketPair"] raises,
\* or a pair with its label and its 24-hour volume (None when null).
AsterPairEntries ==
    {[dict |-> FALSE, marketPair |-> "", volumeUsd |-> None],
     [dict |-> TRUE, marketPair |-> "USD1/USDT", volumeUsd |-> Some(MaxAmount)],
     [dict |-> TRUE, marketPair |-> "BTC/USD1", volumeUsd |-> Some(1)],
     [dict |-> TRUE, marketPair |-> "BTC/USDT", volumeUsd |-> Some(MaxAmount)],
     [dict |-> TRUE, marketPair |-> "usd1/USDT", volumeUsd |-> Some(1)],
     [dict |-> TRUE, marketPair |-> "USD1/BNB", volumeUsd |-> None]}

\* What the exchange answers: has_pairs is FALSE when
\* data["data"]["marketPairs"] raises.
AsterPayloads ==
    {[has_pairs |-> FALSE, marketPairs |-> <<>>]} \cup
    [has_pairs : {TRUE}, marketPairs : SeqUpTo(AsterPairEntries, MaxEntries)]

\* fetch_aster_usd1_pairs, lines 56-68, given the decoded response:
\* [raised, pairs].
fetch_aster_usd1_pairs(data) ==
    LET pairs == data.marketPairs
        n == Len(pairs)
        \* lines 60-65; the loop raises on the first entry that is no dict
        filter[i \in 1..(n + 1)] ==
            IF i > n THEN [raised |-> FALSE, pairs |-> <<>>]
            ELSE IF ~pairs[i].dict THEN [raised |-> TRUE, pairs |-> <<>>]
            ELSE IF HasUSD1(pairs[i].marketPair)
            THEN [filter[i + 1] EXCEPT !.pairs =
                    <<[pair |-> pairs[i].marketPair,
                       volume_usd |-> pairs[i].volumeUsd]>> \o @]
            ELSE filter[i + 1]
        usd1_pairs == filter[1]
        volume == [i \in 1..Len(usd1_pairs.pairs) |-> usd1_pairs.pairs[i].volume_usd[1]]
    IN  IF ~data.has_pairs \/ usd1_pairs.raised THEN [raised |-> TRUE, pairs |-> <<>>]
        \* line 67: sorting two or more pairs compares every key; None raises
        ELSE IF Len(usd1_pairs.pairs) >= 2
                /\ \E i \in 1..Len(usd1_pairs.pairs) :
                     usd1_pairs.pairs[i].volume_usd = None
        THEN [raised |-> TRUE, pairs |-> <<>>]
        ELSE IF Len(usd1_pairs.pairs) < 2 THEN usd1_pairs
        ELSE [raised |-> FALSE, pairs |-> SortDescending(usd1_pairs.pairs, volume)]

\* protocol.replace(" Markets", "")
ShortName(protocol) == IF protocol = "WLFI Markets" THEN "WLFI" ELSE protocol

\* A bug that writes the pairs section whatever the list holds.
format_message_always_pairs(sd, usd1_data, ad) ==
    IF \E i \in 1..Len(ad) : ad[i].volume_usd = None
    THEN [raised |-> TRUE, message |-> <<>>]
    ELSE [raised |-> FALSE,
          message |->
            [sections |-> <<"USD1 MARKETS", "LINKS", "STABLECOINS", "ASTER USD1 PAIRS">>,
             markets |-> [i \in 1..Len(usd1_data) |-> ShortName(usd1_data[i].protocol)],
             stablecoins |-> [i \in 1..Len(sd) |-> sd[i].Token],
             pairs_section |-> TRUE,
             pairs |-> [i \in 1..Len(ad) |-> ad[i].pair]]]
\* format_message: [raised, message].  The message is kept by sections: the
\* headings in the order written (the links line has no heading of its own),
\* the protocols of the lending table, the tokens of the stablecoin table,
\* whether the pairs section is there, and the pairs of its table.
format_message(sd, usd1_data, ad) ==
    IF \E i \in 1..Len(ad) : ad[i].volume_usd = None
    THEN [raised |-> TRUE, message |-> <<>>]       \* line 163: None >= 1_000_000
    ELSE [raised |-> FALSE,
          message |->
            [sections |-> <<"USD1 MARKETS", "LINKS", "STABLECOINS">> \o
                          (IF ad # <<>> THEN <<"ASTER USD1 PAIRS">> ELSE <<>>),
             markets |-> [i \in 1..Len(usd1_data) |-> ShortName(usd1_data[i].protocol)],
             stablecoins |-> [i \in 1..Len(sd) |-> sd[i].Token],
             pairs_section |-> ad # <<>>,
             pairs |-> [i \in 1..Len(ad) |-> ad[i].pair]]]

\* The statuses the delivery endpoint answers with in this model.
Statuses == {200, 204, 400}

\* A bug that accepts every 2xx status.
send_telegram_message_2xx(status_code) == status_code >= 200 /\ status_code < 300
\* send_telegram_message, lines 189-195: what it returns.
send_telegram_message(status_code) == status_code = 200

\* main, lines 226-229
main_return(sent) == IF sent THEN 0 ELSE 1

MainFrame == UNCHANGED <<call, result, env, invoked, raised, excepted, skipped>>

\* Lines 53-54: the single GET fails; main's except clause returns 1.
AsterFails ==
    /\ pc = "aster"
    /\ requested' = requested \cup {"aster"}
    /\ MainPhaseEnds("aster", TRUE, stablecoin_data, rows, <<>>, <<>>)
    /\ done_call' = NoCall
    /\ MainFrame /\ UNCHANGED <<posts, post_status, send_result>>

\* Lines 53-68: the exchange answers.
AsterOk ==
    /\ pc = "aster"
    /\ requested' = requested \cup {"aster"}
    /\ \E data \in AsterPayloads :
        LET got == fetch_aster_usd1_pairs(data)
        IN  MainPhaseEnds("aster", got.raised, stablecoin_data, rows, got.pairs, <<>>)
    /\ done_call' = NoCall
    /\ MainFrame /\ UNCHANGED <<posts, post_status, send_result>>

\* main, line 217.
Format ==
    /\ pc = "format"
    /\ LET got == format_message(stablecoin_data, rows, aster_data)
       IN  MainPhaseEnds("format", got.raised, stablecoin_data, rows, aster_data,
                         got.message)
    /\ UNCHANGED <<done_call, requested, posts, post_status, send_result>>
    /\ MainFrame

\* send_telegram_message, line 187: requests.post raises; main's except
\* clause returns 1.
SendRaises ==
    /\ pc = "send"
    /\ posts' = posts + 1
    /\ MainPhaseEnds("send", TRUE, <<>>, <<>>, <<>>, <<>>)
    /\ UNCHANGED <<done_call, requested, post_status, send_result>>
    /\ MainFrame

\* send_telegram_message, lines 187-195, and main, lines 226-229.
SendAnswered ==
    /\ pc = "send"
    /\ posts' = posts + 1
    /\ \E status_code \in Statuses :
        /\ post_status' = Some(status_code)
        /\ send_result' = Some(send_telegram_message(status_code))
        /\ exit_code' = Some(main_return(send_telegram_message(status_code)))
    /\ Enter(main_next("send", FALSE))
    /\ MainLocals(main_next("send", FALSE), <<>>, <<>>, <<>>, <<>>)
    /\ order' = order \o <<End("send")>> \o Entering(main_next("send", FALSE))
    /\ UNCHANGED <<done_call, requested, failure>>
    /\ MainFrame

Init ==
    /\ env \in [token : {None, Some(""), Some("123:abc")},
                chat : {None, Some(""), Some("-1001")}]
    /\ pc = "start"
    /\ adapter = 1
    /\ step = "none"
    /\ retry = FreshCall
    /\ done_call = NoCall
    /\ stash = <<>>
    /\ rows = <<>>
    /\ stablecoin_data = <<>>
    /\ aster_data = <<>>
    /\ message = <<>>
    /\ posts = 0
    /\ post_status = None
    /\ send_result = None
    /\ exit_code = None
    /\ order = <<>>
    /\ requested = {}
    /\ invoked = {}
    /\ raised = {}
    /\ excepted = {}
    /\ skipped = {}
    /\ failure = "none"
    /\ call = [fn |-> "main"]
    /\ result = None

\* main, lines 201-211: the configuration check.
MainStart ==
    /\ pc = "start"
    /\ IF config_missing(TELEGRAM_BOT_TOKEN, TELEGRAM_CHAT_ID)
       THEN /\ pc' = "done"
            /\ exit_code' = Some(1)
            /\ UNCHANGED <<step, order>>
       ELSE /\ pc' = "stablecoins"
            /\ step' = "call"
            /\ order' = <<Begin("stablecoins")>>
            /\ UNCHANGED exit_code
    /\ UNCHANGED <<call, result, env, adapter, retry, done_call, stash, rows, stablecoin_data,
                   aster_data, message, posts, post_status, send_result,
                   requested, invoked, raised, excepted, skipped, failure>>

\* fetch_with_retry: an attempt raises a RequestException.
StablecoinsAttemptFails ==
    /\ pc = "stablecoins" /\ ~retry.asleep
    /\ retry.attempt < DEFAULT_RETRIES
    /\ requested' = requested \cup {"stablecoins"}
    /\ IF retry.attempt < DEFAULT_RETRIES - 1
       THEN /\ retry' = RetryAfterFailure(retry)
            /\ done_call' = NoCall
            /\ UNCHANGED <<pc, adapter, step, stash, order, failure, exit_code,
                           stablecoin_data, rows, aster_data, message>>
       ELSE /\ done_call' = CallRaised("fetch_with_retry", retry)
            /\ MainPhaseEnds("stablecoins", TRUE, <<>>, <<>>, <<>>, <<>>)
    /\ UNCHANGED <<call, result, env, posts, post_status, send_result, invoked, raised,
                   excepted, skipped>>

\* fetch_with_retry: time.sleep(wait_time) between two attempts.
StablecoinsSleep ==
    /\ pc = "stablecoins" /\ retry.asleep
    /\ retry' = RetryAfterSleep(retry, wait_time(retry.attempt))
    /\ UNCHANGED <<call, result, env, pc, adapter, step, done_call, stash, rows,
                   stablecoin_data, aster_data, message, posts, post_status,
                   send_result, exit_code, order, requested, invoked, raised,
                   excepted, skipped, failure>>

\* fetch_with_retry: an attempt succeeds; fetch_stablecoins and the rest of
\* get_stablecoin_data run on its JSON.
StablecoinsAttemptSucceeds ==
    /\ pc = "stablecoins" /\ ~retry.asleep
    /\ retry.attempt < DEFAULT_RETRIES
    /\ requested' = requested \cup {"stablecoins"}
    /\ done_call' = CallReturned("fetch_with_retry", retry)
    /\ \E data \in StablecoinPayloads :
        LET got == IF data.dict THEN get_stablecoin_data(data.peggedAssets)
                   ELSE [raised |-> TRUE, rows |-> <<>>]
        IN  MainPhaseEnds("stablecoins", got.raised, got.rows, <<>>, <<>>, <<>>)
    /\ UNCHANGED <<call, result, env, posts, post_status, send_result, invoked, raised,
                   excepted, skipped>>

Next ==
    \/ MainStart
    \/ StablecoinsAttemptFails
    \/ StablecoinsSleep
    \/ StablecoinsAttemptSucceeds
    \/ WlfiTokensFails
    \/ WlfiTokensOk
    \/ WlfiRatesFails
    \/ WlfiRatesOk
    \/ EchelonFails
    \/ EchelonOk
    \/ KaminoVaultFails
    \/ KaminoVaultOk
    \/ KaminoReservesFails
    \/ KaminoReservesOk
    \/ JustLendRetries
    \/ FetchJsonSleep
    \/ JustLendFails
    \/ JustLendOk
    \/ ListaRetries
    \/ ListaFails
    \/ ListaListOk
    \/ ListaAllocationOk
    \/ AsterFails
    \/ AsterOk
    \/ Format
    \/ SendRaises
    \/ SendAnswered

Spec == Init /\ [][Next]_vars

(***************************************************************************)
(* The functions of the program called on their own: the arguments are     *)
(* drawn when the call starts, and the one step of a call is its return.   *)
(***************************************************************************)
MaxReserves == 1     \* longest reserves list a Kamino market answers with

\* main is not running while a function is called on its own.
MainIdle ==
    /\ env = [token |-> None, chat |-> None]
    /\ pc = "start"
    /\ adapter = 1
    /\ step = "none"
    /\ retry = FreshCall
    /\ done_call = NoCall
    /\ stash = <<>>
    /\ rows = <<>>
    /\ stablecoin_data = <<>>
    /\ aster_data = <<>>
    /\ message = <<>>
    /\ posts = 0
    /\ post_status = None
    /\ send_result = None
    /\ exit_code = None
    /\ order = <<>>
    /\ requested = {}
    /\ invoked = {}
    /\ raised = {}
    /\ excepted = {}
    /\ skipped = {}
    /\ failure = "none"

\* The call named fn returns v.
Returns(fn, v) ==
    /\ call.fn = fn /\ result = None
    /\ result' = Some(v)
    /\ UNCHANGED <<call, env, pc, adapter, step, retry, done_call, stash, rows,
                   stablecoin_data, aster_data, message, posts, post_status,
                   send_result, exit_code, order, requested, invoked, raised,
                   excepted, skipped, failure>>

CallWlfi == Returns("wlfi.fetch_row", wlfi_row(call.tokens, call.rates))

CallEchelon == Returns("echelon.fetch_row", echelon_row(call.root))

\* kamino.fetch_row, lines 45-84, the vault and the three reserves endpoints
\* answering: the loop of lines 61-72 over the markets' reserves.
kamino_fetch_row(m, reserves) ==
    LET n == Len(KAMINO_MARKETS)
        loop[k \in 0..n] ==
            IF k = 0 THEN kamino_vault(m)
            ELSE [loop[k - 1] EXCEPT
                    !.tot_borrow = @ + kamino_total_borrow(reserves[k]),
                    !.market = k]
    IN  Returned(kamino_row(loop[n]))

CallKamino == Returns("kamino.fetch_row", kamino_fetch_row(call.m, call.reserves))

CallJustLend == Returns("justlend.fetch_row", justlend_row(call.data))

\* lista.fetch_row, lines 86-125, both endpoints answering with data.list.
lista_fetch_row(vaults, markets) ==
    LET v == _find_usd1_vault(vaults)
    IN  IF v = -1 THEN Caught("Lista")
        ELSE IF v = 0 THEN Returned(NullRow("Lista"))
        ELSE lista_row(lista_vault(vaults[v]), [dict |-> TRUE, list |-> markets])

CallLista == Returns("lista.fetch_row", lista_fetch_row(call.vaults, call.markets))

\* The incentive sums of this model, in basis points: negative, none, positive.
IncentiveSums == {-100, 0, 481}

CallWlfiRate ==
    Returns("wlfi.supply_rate_str", wlfi_supply_rate(call.base_supply, call.incentive))

CallEchelonSupplyRate ==
    Returns("echelon.supply_rate_str", echelon_supply_rate(call.apr, call.incentive))

CallEchelonBorrowRate ==
    Returns("echelon.borrow_rate_str", echelon_borrow_rate(call.apr, call.incentive))

CallFormatRate ==
    Returns("format_rate", format_rate(call.base, call.incentive, call.is_borrow))

\* The entries of the snapshot get_stablecoin_data is called on: as
\* CoinEntries, with more of the requested symbols.
SnapshotEntries ==
    {[dict |-> FALSE, symbol |-> "", circulating |-> None]} \cup
    [dict : {TRUE}, symbol : {"usd1", "USDT", "u", "DAI"},
     circulating : {None, Some(MaxAmount)}]

CallStablecoins ==
    Returns("get_stablecoin_data", get_stablecoin_data(call.stablecoins))

\* fetch_aster_usd1_pairs, lines 49-68, as a whole: one GET, whose failure
\* (lines 53-54) is raised at once, and the pairs of its response.
fetch_aster_usd1_pairs_call(response) ==
    LET got == IF response.ok THEN fetch_aster_usd1_pairs(response.data)
               ELSE [raised |-> TRUE, pairs |-> <<>>]
    IN  [gets |-> 1, raised |-> got.raised, pairs |-> got.pairs]

CallAster ==
    Returns("fetch_aster_usd1_pairs", fetch_aster_usd1_pairs_call(call.response))

CallFormatMessage ==
    Returns("format_message",
            format_message(call.stablecoin_data, call.usd1_data, call.aster_data))

CallNormalizeRate == Returns("normalize_rate", normalize_rate(call.value))

CallCompactAmount == Returns("compact_amount", compact_amount(call.x))

\* fetch_json run to its end, outcomes[k + 1] being what attempt k meets:
\* the loop returns from the first attempt that succeeds, sleeps after a
\* failure that is not the last, and raises after the last.
fetch_json_call(outcomes) ==
    LET locals[k \in 0..(MAX_RETRIES - 1)] ==
            IF k = 0 THEN FreshCall
            ELSE RetryAfterSleep(RetryAfterFailure(locals[k - 1]), sleep_time(k - 1))
        succeed == {k \in 0..(MAX_RETRIES - 1) : outcomes[k + 1] = "ok"}
    IN  IF succeed = {} THEN CallRaised("fetch_json", locals[MAX_RETRIES - 1])
        ELSE CallReturned("fetch_json",
                          locals[CHOOSE k \in succeed : \A j \in succeed : k <= j])

\* fetch_with_retry run to its end under its default retries and factor.
fetch_with_retry_call(outcomes) ==
    LET locals[k \in 0..(DEFAULT_RETRIES - 1)] ==
            IF k = 0 THEN FreshCall
            ELSE RetryAfterSleep(RetryAfterFailure(locals[k - 1]), wait_time(k - 1))
        succeed == {k \in 0..(DEFAULT_RETRIES - 1) : outcomes[k + 1] = "ok"}
    IN  IF succeed = {} THEN CallRaised("fetch_with_retry", locals[DEFAULT_RETRIES - 1])
        ELSE CallReturned("fetch_with_retry",
                          locals[CHOOSE k \in succeed : \A j \in succeed : k <= j])

CallFetchJson == Returns("fetch_json", fetch_json_call(call.outcomes))

CallFetchWithRetry == Returns("fetch_with_retry", fetch_with_retry_call(call.outcomes))

\* The fetch_json calls lista.fetch_row makes, in order: the vault list
\* (line 84), then, when that call returned and line 87 found a vault, the
\* allocation of the address line 109 writes into its URL.
lista_requests(list_ok, vaults) ==
    LET v == IF list_ok THEN _find_usd1_vault(vaults) ELSE 0
    IN  <<[url |-> "vault/list", address |-> None]>> \o
        (IF v > 0
         THEN <<[url |-> "vault/allocation",
                 address |-> Some(vault_address(vaults[v]))]>>
         ELSE <<>>)

CallListaRequests ==
    Returns("lista.fetch_row.requests", lista_requests(call.list_ok, call.vaults))

\* The parts the incentive loop of wlfi.fetch_row is called on: no dict, a
\* Merkl label, a Merkl claim URL, a WLFI label, a WLFI claim URL, neither,
\* and a Merkl label without a rate.
WlfiPartEntries ==
    {WlfiPartNonDict,
     [WlfiPartNonDict EXCEPT !.dict = TRUE, !.label = "Merkl rewards",
        !.interestRate = Some(481)],
     [WlfiPartNonDict EXCEPT !.dict = TRUE, !.label = "Points",
        !.rewardClaimUrl = "https://app.merkl.xyz/", !.interestRate = Some(100)],
     [WlfiPartNonDict EXCEPT !.dict = TRUE, !.label = "WLFI Rewards",
        !.interestRate = Some(50)],
     [WlfiPartNonDict EXCEPT !.dict = TRUE, !.label = "Points",
        !.rewardClaimUrl = "WLFI Rewards", !.interestRate = Some(7)],
     [WlfiPartNonDict EXCEPT !.dict = TRUE, !.label = "Points",
        !.interestRate = Some(3)],
     [WlfiPartNonDict EXCEPT !.dict = TRUE, !.label = "MERKL"]}

CallWlfiIncentive == Returns("wlfi.incentive", wlfi_incentive(call.outside_parts))

CallEchelonIncentive == Returns("echelon.incentive", echelon_incentive(call.entries))

\* The calls: the function and its arguments.
FnCalls ==
    UNION {
      \* wlfi.fetch_row, lines 98-112, on the outside-rate parts
      [fn : {"wlfi.incentive"},
       outside_parts : SeqUpTo(WlfiPartEntries, MaxEntries)],
      \* echelon.fetch_row, lines 88-97, on a farming-APR list
      [fn : {"echelon.incentive"},
       entries : SeqUpTo({FarmNonDict, Farm(None), Farm(Some(481)),
                          Farm(Some(200)), Farm(Some(-100))}, MaxEntries)],
      \* the requests of lista.fetch_row: whether the vault list is fetched,
      \* and the list
      [fn : {"lista.fetch_row.requests"}, list_ok : BOOLEAN,
       vaults : SeqUpTo(ListaVaultEntries, MaxEntries)],
      \* wlfi.fetch_row, both endpoints answering with lists
      [fn : {"wlfi.fetch_row"},
       tokens : SeqUpTo(WlfiTokenEntries, MaxEntries),
       rates : SeqUpTo(WlfiRateEntries, MaxEntries)],
      \* echelon.fetch_row, the endpoint answering with a data object
      [fn : {"echelon.fetch_row"}, root : {r \in EchelonPayloads : r.has_data}],
      \* kamino.fetch_row, the vault and the reserves endpoints answering
      [fn : {"kamino.fetch_row"},
       m : {v \in KaminoVaultPayloads : v.dict},
       reserves : [1..Len(KAMINO_MARKETS) ->
                      SeqUpTo(KaminoReserveEntries, MaxReserves)]],
      \* justlend.fetch_row, fetch_json having returned
      [fn : {"justlend.fetch_row"}, data : JustLendPayloads],
      \* lista.fetch_row, both endpoints answering with data.list
      [fn : {"lista.fetch_row"},
       vaults : SeqUpTo(ListaVaultEntries, MaxEntries),
       markets : SeqUpTo(ListaMarketEntries, MaxEntries)],
      \* wlfi.fetch_row, lines 114-124, on base_supply and the incentive sum
      [fn : {"wlfi.supply_rate_str"}, base_supply : {None, Some(293)},
       incentive : IncentiveSums],
      \* echelon.fetch_row, lines 99-116, on a rate and its incentive sum
      [fn : {"echelon.supply_rate_str", "echelon.borrow_rate_str"},
       apr : {0, 293, 1000}, incentive : IncentiveSums],
      \* format_rate on percents in units of 0.0001: 2.93 and 10.0 for the
      \* base, 0, 4.81, 2.0 and -1.0 for the incentive
      [fn : {"format_rate"}, base : {None, Some(29300), Some(100000)},
       incentive : {None, Some(0), Some(48100), Some(20000), Some(-10000)},
       is_borrow : BOOLEAN],
      \* get_stablecoin_data on the snapshot fetch_stablecoins returned
      [fn : {"get_stablecoin_data"},
       stablecoins : SeqUpTo(SnapshotEntries, MaxEntries)],
      \* fetch_aster_usd1_pairs: the GET fails, or the exchange answers
      [fn : {"fetch_aster_usd1_pairs"},
       response : {[ok |-> FALSE,
                    data |-> [has_pairs |-> FALSE, marketPairs |-> <<>>]]}
                  \cup [ok : {TRUE}, data : AsterPayloads]],
      \* format_message on stablecoin rows, lending rows, and pairs in any
      \* order
      [fn : {"format_message"},
       stablecoin_data : {<<>>, <<[Token |-> "USD1", market_cap_usd |-> MaxAmount]>>},
       usd1_data : {<<>>, <<NullRow("WLFI Markets"), NullRow("Lista")>>},
       aster_data : SeqUpTo({[pair |-> e.marketPair, volume_usd |-> e.volumeUsd] :
                                e \in {p \in AsterPairEntries : p.dict}}, MaxEntries)],
      \* normalize_rate on null, on text that is no number, and on numbers on
      \* both sides of the limit (in units of 0.0001)
      [fn : {"normalize_rate"},
       value : {None, Text} \cup
               {Num(v) : v \in {-77300, -15001, -15000, -773, 0, 773,
                                15000, 15001, 77300}}],
      \* compact_amount on null, on each threshold, on the amount just below
      \* it, on amounts between, and on negative amounts
      [fn : {"compact_amount"},
       x : {None,
            Amount(FALSE, 0, 0), Amount(FALSE, 0, 999), Amount(FALSE, 0, 1000),
            Amount(FALSE, 0, 1125), Amount(FALSE, 0, 1234), Amount(FALSE, 0, 1236),
            Amount(FALSE, 0, 1500), Amount(FALSE, 0, 999999), Amount(FALSE, 1, 0),
            Amount(FALSE, 2, 500000), Amount(FALSE, 999, 999999),
            Amount(FALSE, 1000, 0), Amount(FALSE, 3200, 0),
            Amount(FALSE, 999999, 999999), Amount(FALSE, 1000000, 0),
            Amount(FALSE, 3200000, 0), Amount(TRUE, 0, 5000),
            Amount(TRUE, 2, 500000)}],
      \* fetch_json and fetch_with_retry: what each attempt meets, success
      \* or a request failure
      [fn : {"fetch_json", "fetch_with_retry"},
       outcomes : [1..MAX_RETRIES -> {"ok", "fail"}]]
    }

FnInit ==
    /\ MainIdle
    /\ call \in FnCalls
    /\ result = None

FnNext ==
    \/ CallWlfi
    \/ CallEchelon
    \/ CallKamino
    \/ CallJustLend
    \/ CallLista
    \/ CallWlfiRate
    \/ CallEchelonSupplyRate
    \/ CallEchelonBorrowRate
    \/ CallFormatRate
    \/ CallStablecoins
    \/ CallAster
    \/ CallFormatMessage
    \/ CallNormalizeRate
    \/ CallCompactAmount
    \/ CallFetchJson
    \/ CallFetchWithRetry
    \/ CallListaRequests
    \/ CallWlfiIncentive
    \/ CallEchelonIncentive

FnSpec == FnInit /\ [][FnNext]_vars

(***************************************************************************)
(* Properties.                                                             *)
(***************************************************************************)
AllAdapters == {"WLFI Markets", "Echelon", "JustLend", "Kamino", "Lista"}

ConfigPresent ==
    /\ env.token \notin {None, Some("")}
    /\ env.chat \notin {None, Some("")}

\* C1: for every one of the five adapters fetch_row never raises: no adapter
\* call ends by propagating an exception to fetch_usd1_markets.
C1_FetchRowNeverRaises == raised = {}

\* C2: in every run that reaches the formatter, rows holds exactly five
\* records, one per adapter, in registration order; a failing adapter is
\* there as a record with null amounts and "N/A" rates.
C2_FiveRecordsInOrder ==
    pc \in {"format", "send"} =>
        /\ Len(rows) = 5
        /\ [i \in 1..Len(rows) |-> rows[i].protocol] =
             <<"WLFI Markets", "Echelon", "JustLend", "Kamino", "Lista">>
        /\ \A i \in 1..Len(rows) :
             rows[i].protocol \in excepted => rows[i] = NullRow(rows[i].protocol)

\* C3: main returns 0 if and only if the delivery POST was made and answered
\* with status 200, and 1 in every other terminating run; it returns nothing
\* while it runs.
C3_ExitZeroIffDelivered ==
    /\ pc # "done" => exit_code = None
    /\ pc = "done" =>
        /\ exit_code \in {Some(0), Some(1)}
        /\ exit_code = Some(0) <=> (posts = 1 /\ post_status = Some(200))

C3_Witness ==
    /\ pc = "done" /\ exit_code = Some(0)
    /\ posts = 1 /\ post_status = Some(200)

\* C4: fetch_json makes at most 3 attempts; it returns the JSON of the first
\* successful attempt, which is its last; after failed attempt 0 it sleeps
\* 1 s and after failed attempt 1 it sleeps 2 s; after the third failed
\* attempt it does not sleep and raises that attempt's exception.
C4_RetryProtocol ==
    /\ pc = "markets" =>
        /\ retry.attempt <= 2
        /\ retry.sleeps = SubSeq(<<1, 2>>, 1, retry.attempt)
        /\ retry.outcomes =
             [k \in 1..(retry.attempt + (IF retry.asleep THEN 1 ELSE 0)) |-> "fail"]
    /\ done_call.fn = "fetch_json" =>
        /\ done_call.attempts \in 1..3
        /\ done_call.sleeps = SubSeq(<<1, 2>>, 1, done_call.attempts - 1)
        /\ Len(done_call.outcomes) = done_call.attempts
        /\ \A k \in 1..(done_call.attempts - 1) : done_call.outcomes[k] = "fail"
        /\ retry = FreshCall
        /\ done_call.result \in {"return", "raise"}
        /\ done_call.result = "return" =>
            /\ done_call.outcomes[done_call.attempts] = "ok"
            /\ done_call.returned = Some(done_call.attempts - 1)
            /\ done_call.exc = None
        /\ done_call.result = "raise" =>
            /\ done_call.attempts = 3
            /\ done_call.outcomes[3] = "fail"
            /\ done_call.exc = Some(2)
            /\ done_call.returned = None

C4_Witness ==
    /\ done_call.fn = "fetch_json" /\ done_call.result = "raise"
    /\ done_call.sleeps = <<1, 2>>

\* C5: whatever adapters fail, every adapter is still invoked, no adapter's
\* failure ends the run, and unless another phase raises the exchange-pairs
\* fetch and the delivery POST take place.
C5_AdapterFailuresDoNotBlock ==
    /\ failure # "markets"
    /\ pc \in {"aster", "format", "send"} => invoked = AllAdapters
    /\ (pc = "done" /\ ConfigPresent /\ failure = "none") =>
        /\ invoked = AllAdapters
        /\ "aster" \in requested
        /\ posts = 1

\* All five adapters failed, and the run ended with exit status 0.
C5_Witness ==
    /\ pc = "done" /\ exit_code = Some(0)
    /\ excepted = AllAdapters
    /\ raised = {"JustLend"}

\* C6: a failure of the stablecoin fetch or of the exchange-pairs fetch ends
\* the run with exit status 1 and without any delivery POST; after a failed
\* stablecoin fetch no adapter is called and no exchange-pairs request is
\* made.
C6_FatalFetches ==
    /\ failure = "stablecoins" =>
        /\ pc = "done" /\ exit_code = Some(1)
        /\ posts = 0
        /\ invoked = {}
        /\ requested = {"stablecoins"}
    /\ (done_call.fn = "fetch_with_retry" /\ done_call.result = "raise") =>
        failure = "stablecoins"
    /\ failure = "aster" =>
        /\ pc = "done" /\ exit_code = Some(1)
        /\ posts = 0

\* The stablecoin fetch failed with its retries exhausted.
C6_Witness ==
    /\ failure = "stablecoins"
    /\ done_call.fn = "fetch_with_retry" /\ done_call.result = "raise"
    /\ done_call.attempts = 3

C7_FullOrder ==
    <<<<"stablecoins", "begin">>, <<"stablecoins", "end">>,
      <<"WLFI Markets", "begin">>, <<"WLFI Markets", "end">>,
      <<"Echelon", "begin">>, <<"Echelon", "end">>,
      <<"JustLend", "begin">>, <<"JustLend", "end">>,
      <<"Kamino", "begin">>, <<"Kamino", "end">>,
      <<"Lista", "begin">>, <<"Lista", "end">>,
      <<"aster", "begin">>, <<"aster", "end">>,
      <<"format", "begin">>, <<"format", "end">>,
      <<"send", "begin">>, <<"send", "end">>>>

\* C7: the phases begin and end in one fixed order, each ending before the
\* next begins: stablecoins, the five adapters in registration order, the
\* exchange pairs, formatting, delivery; a component issues requests only
\* once its phase has begun, and the POST is made only after every earlier
\* phase has ended.
C7_PhasesInFixedOrder ==
    /\ Len(order) <= Len(C7_FullOrder)
    /\ order = SubSeq(C7_FullOrder, 1, Len(order))
    /\ \A c \in requested : \E i \in 1..Len(order) : order[i] = <<c, "begin">>
    /\ posts > 0 => Len(order) >= 17

\* A run that went through every phase.
C7_Witness == order = C7_FullOrder /\ posts = 1 /\ requested = AllAdapters \cup {"stablecoins", "aster"}

\* C8: if the bot token or the chat identifier is empty or absent, main
\* returns 1 without any outbound request.
C8_MissingConfigFailsFast ==
    ~ConfigPresent =>
        /\ pc \in {"start", "done"}
        /\ requested = {}
        /\ invoked = {}
        /\ posts = 0
        /\ pc = "done" => exit_code = Some(1)

\* The token is set and the chat identifier is not.
C8_Witness ==
    /\ env.token = Some("123:abc") /\ env.chat = None
    /\ pc = "done" /\ exit_code = Some(1)

\* C9: at most one POST is made per run, and send_telegram_message returns
\* True exactly when the response status is 200.
C9_SingleDelivery ==
    /\ posts <= 1
    /\ post_status # None => posts = 1
    /\ send_result # None =>
        /\ post_status # None
        /\ send_result = Some(post_status = Some(200))

\* The POST was answered with status 400 and was not repeated.
C9_Witness ==
    /\ pc = "done" /\ posts = 1
    /\ post_status = Some(400) /\ send_result = Some(FALSE)

Populated(row) ==
    /\ row.total_supplied # None /\ row.total_borrowed # None
    /\ row.supply_rate # "N/A" /\ row.borrow_rate # "N/A"

SpellsUSD1(symbol) == symbol \in {"USD1", "usd1", "Usd1"}

FirstIndex(S) == CHOOSE i \in S : \A j \in S : i <= j

\* The call named fn has returned.
Done(fn) == call.fn = fn /\ result # None

\* The first token of the WLFI tokens list spelled USD1.
C11_WlfiTokens == {i \in 1..Len(call.tokens) : call.tokens[i].dict /\ SpellsUSD1(call.tokens[i].symbol)}
\* That token has a market identifier and no rate object stands under it.
C11_WlfiNoRate ==
    /\ C11_WlfiTokens # {}
    /\ LET usd1_token == call.tokens[FirstIndex(C11_WlfiTokens)]
       IN  /\ usd1_token.marketId # None
           /\ \A i \in 1..Len(call.rates) : call.rates[i].marketId # usd1_token.marketId

C11_EchelonAssets == {i \in 1..Len(call.root.assets) : call.root.assets[i].dict /\ call.root.assets[i].symbol = "USD1"}
\* No pair of marketStats stands under the key of the USD1 asset.
C11_EchelonNoStats ==
    /\ C11_EchelonAssets # {}
    /\ LET usd1_asset == call.root.assets[FirstIndex(C11_EchelonAssets)]
           stats_key == IF usd1_asset.faAddress # "" THEN usd1_asset.faAddress
                        ELSE usd1_asset.address
       IN  \A i \in 1..Len(call.root.marketStats) :
               ~(call.root.marketStats[i].pair /\ call.root.marketStats[i].key = stats_key)

C11_EchelonNoEntry ==
    \A i \in 1..Len(call.root.assets) :
        ~(call.root.assets[i].dict /\ SpellsUSD1(call.root.assets[i].symbol))

C11_KaminoNoReserve ==
    \A k \in 1..Len(call.reserves) : \A i \in 1..Len(call.reserves[k]) :
        ~(call.reserves[k][i].dict /\ SpellsUSD1(call.reserves[k][i].liquidityToken))

C11_JustLendNoEntry ==
    /\ call.data.iterable
    /\ \A i \in 1..Len(call.data.assetList) :
         LET asset == call.data.assetList[i]
         IN  ~(asset.dict /\ asset.collateralSymbol # None
               /\ SpellsUSD1(asset.collateralSymbol[1]))

C11_JustLendSymbolsAreText ==
    \A i \in 1..Len(call.data.assetList) :
        call.data.assetList[i].dict => call.data.assetList[i].collateralSymbol # None

C11_ListaNoVault ==
    \A i \in 1..Len(call.vaults) :
        ~(/\ call.vaults[i].dict
          /\ \/ call.vaults[i].address \in {Some("0xfa27"), Some("0xFA27")}
             \/ (call.vaults[i].assetSymbol # None
                 /\ SpellsUSD1(call.vaults[i].assetSymbol[1])))

C11_NullRecord(name) == ~result[1].raises /\ result[1].row = NullRow(name)

C12_Capitals(symbol) == IF SpellsUSD1(symbol) THEN "USD1" ELSE symbol
C12_OptCapitals(symbol) == IF symbol = None THEN None ELSE Some(C12_Capitals(symbol[1]))

\* C12: every adapter locates the USD1 entry case-insensitively: the record
\* it returns is the one it returns for the same response with the symbol
\* respelled "USD1".
C12_CaseInsensitiveMatch ==
    /\ Done("wlfi.fetch_row") =>
          result[1] = wlfi_row(
              [i \in 1..Len(call.tokens) |->
                  [call.tokens[i] EXCEPT !.symbol = C12_Capitals(@)]],
              call.rates)
    /\ Done("echelon.fetch_row") =>
          result[1] = echelon_row(
              [call.root EXCEPT !.assets =
                  [i \in 1..Len(@) |-> [@[i] EXCEPT !.symbol = C12_Capitals(@)]]])
    /\ Done("kamino.fetch_row") =>
          result[1] = kamino_fetch_row(call.m,
              [k \in 1..Len(call.reserves) |->
                  [i \in 1..Len(call.reserves[k]) |->
                      [call.reserves[k][i] EXCEPT !.liquidityToken = C12_Capitals(@)]]])
    /\ Done("justlend.fetch_row") =>
          result[1] = justlend_row(
              [call.data EXCEPT !.assetList =
                  [i \in 1..Len(@) |->
                      [@[i] EXCEPT !.collateralSymbol = C12_OptCapitals(@)]]])
    /\ Done("lista.fetch_row") =>
          result[1] = lista_fetch_row(
              [i \in 1..Len(call.vaults) |->
                  [call.vaults[i] EXCEPT !.assetSymbol = C12_OptCapitals(@)]],
              call.markets)

\* A fraction in basis points as format_rate's percent (units of 0.0001).
C13_Percent(fraction_bp) == IF fraction_bp = None THEN None ELSE Some(fraction_bp[1] * 100)

\* C13: the rate strings of the adapters that sum incentives are those of
\* format_rate on the same base rate and incentive sum: "N/A" for a missing
\* base, the plain percent for a zero sum, the total with its breakdown for
\* any other sum, negative ones included.
C13_AdaptersFollowFormatRate ==
    /\ Done("wlfi.supply_rate_str") =>
          result[1] = format_rate(C13_Percent(call.base_supply),
                                  C13_Percent(Some(call.incentive)), FALSE)
    /\ Done("echelon.supply_rate_str") =>
          result[1] = format_rate(C13_Percent(Some(call.apr)),
                                  C13_Percent(Some(call.incentive)), FALSE)
    /\ Done("echelon.borrow_rate_str") =>
          result[1] = format_rate(C13_Percent(Some(call.apr)),
                                  C13_Percent(Some(call.incentive)), TRUE)
    /\ (Done("echelon.fetch_row") /\ C11_EchelonAssets # {}
        /\ result[1].row # NullRow("Echelon")) =>
          LET usd1_asset == call.root.assets[FirstIndex(C11_EchelonAssets)]
          IN  /\ result[1].row.supply_rate =
                   format_rate(C13_Percent(usd1_asset.supplyApr),
                       C13_Percent(Some(echelon_incentive(usd1_asset.farmingApr.supply))),
                       FALSE)
              /\ result[1].row.borrow_rate =
                   format_rate(C13_Percent(usd1_asset.borrowApr),
                       C13_Percent(Some(echelon_incentive(usd1_asset.farmingApr.borrow))),
                       TRUE)

\* The two-decimal percents of the values format_rate is called on here.
C14_Shown(percent) ==
    CASE percent = 29300 -> "2.93%"
      [] percent = 100000 -> "10.00%"
      [] percent = 48100 -> "4.81%"
      [] percent = 20000 -> "2.00%"
      [] percent = -10000 -> "-1.00%"
      [] percent = 77400 -> "7.74%"
      [] percent = 49300 -> "4.93%"
      [] percent = 19300 -> "1.93%"
      [] percent = 148100 -> "14.81%"
      [] percent = 120000 -> "12.00%"
      [] percent = 90000 -> "9.00%"
      [] percent = -18800 -> "-1.88%"
      [] percent = 9300 -> "0.93%"
      [] percent = 39300 -> "3.93%"
      [] percent = 51900 -> "5.19%"
      [] percent = 80000 -> "8.00%"
      [] percent = 110000 -> "11.00%"

\* C14: format_rate returns "N/A" for a null base whatever the rest; the
\* plain two-decimal percent of the base for a null or zero incentive; and
\* for any other incentive base + incentive (supply) or base - incentive
\* (borrow) followed by the breakdown naming base and incentive.
C14_FormatRate ==
    Done("format_rate") =>
        /\ call.base = None => result[1] = "N/A"
        /\ (call.base # None /\ call.incentive \in {None, Some(0)}) =>
              result[1] = C14_Shown(call.base[1])
        /\ (call.base # None /\ call.incentive \notin {None, Some(0)}
            /\ ~call.is_borrow) =>
              result[1] = C14_Shown(call.base[1] + call.incentive[1]) \o " (base " \o
                          C14_Shown(call.base[1]) \o " + inc " \o
                          C14_Shown(call.incentive[1]) \o ")"
        /\ (call.base # None /\ call.incentive \notin {None, Some(0)}
            /\ call.is_borrow) =>
              result[1] = C14_Shown(call.base[1] - call.incentive[1]) \o " (borrow " \o
                          C14_Shown(call.base[1]) \o " - inc " \o
                          C14_Shown(call.incentive[1]) \o ")"
        /\ (call.base = Some(29300) /\ call.incentive = Some(48100)
            /\ ~call.is_borrow) => result[1] = "7.74% (base 2.93% + inc 4.81%)"

\* format_rate(10.0, 2.0, is_borrow=True)
C14_Witness ==
    /\ Done("format_rate")
    /\ call.base = Some(100000) /\ call.incentive = Some(20000) /\ call.is_borrow
    /\ result = Some("8.00% (borrow 10.00% - inc 2.00%)")

\* A stablecoin symbol in capitals.
C15_Capitals(symbol) ==
    CASE symbol = "usd1" -> "USD1"
      [] symbol = "u" -> "U"
      [] OTHER -> symbol

\* The records of the snapshot whose symbol is the token's, in any case.
C15_Matches(token) ==
    {i \in 1..Len(call.stablecoins) :
        call.stablecoins[i].dict /\ C15_Capitals(call.stablecoins[i].symbol) = token}

C15_Requested == <<"USDT", "USDC", "USD1", "U">>

C15_Tokens == [i \in 1..Len(result[1].rows) |-> C15_Capitals(result[1].rows[i].Token)]

\* C15, as claimed: get_stablecoin_data returns one row for each requested
\* token with a case-insensitive match in the snapshot, in the order
\* requested, and omits a token only when no record has its symbol.
C15_RowPerMatchedToken ==
    (Done("get_stablecoin_data") /\ ~result[1].raised) =>
        C15_Tokens = SelectSeq(C15_Requested, LAMBDA t : C15_Matches(t) # {})

\* C15, amended: the rows are those of the requested tokens whose first
\* matching record carries a circulating value, in the order requested, each
\* with that value as its market cap; a token without a match, or whose
\* first match has no circulating value, is omitted.
C15_RowPerValuedToken ==
    (Done("get_stablecoin_data") /\ ~result[1].raised) =>
        /\ C15_Tokens =
             SelectSeq(C15_Requested,
                LAMBDA t : /\ C15_Matches(t) # {}
                           /\ call.stablecoins[FirstIndex(C15_Matches(t))].circulating # None)
        /\ \A i \in 1..Len(result[1].rows) :
             Some(result[1].rows[i].market_cap_usd) =
               call.stablecoins[FirstIndex(C15_Matches(C15_Tokens[i]))].circulating

\* The snapshot lists USD1 (spelled "usd1") before USDT: the rows come in the
\* order requested.
C15_Witness ==
    /\ Done("get_stablecoin_data") /\ ~result[1].raised
    /\ Len(call.stablecoins) = 2
    /\ call.stablecoins[1].symbol = "usd1" /\ call.stablecoins[2].symbol = "USDT"
    /\ C15_Tokens = <<"USDT", "USD1">>

\* The labels of the model that contain "USD1" as written.
C16_Labels == {"USD1/USDT", "BTC/USD1", "USD1/BNB"}

\* How many times a label and volume occur in a list of pairs.
C16_Returned(label, volume) ==
    Cardinality({i \in 1..Len(result[1].pairs) :
        result[1].pairs[i] = [pair |-> label, volume_usd |-> volume]})

C16_Received(label, volume) ==
    Cardinality({i \in 1..Len(call.response.data.marketPairs) :
        /\ call.response.data.marketPairs[i].marketPair = label
        /\ call.response.data.marketPairs[i].volumeUsd = volume})

\* C16: what fetch_aster_usd1_pairs returns holds every pair of the response
\* whose label contains "USD1" as many times as the response does and no
\* other pair, with volumes that never increase; it makes one GET, whether
\* it returns or raises.
C16_FilteredAndSorted ==
    Done("fetch_aster_usd1_pairs") =>
        /\ result[1].gets = 1
        /\ ~result[1].raised =>
            /\ \A e \in AsterPairEntries :
                 C16_Returned(e.marketPair, e.volumeUsd) =
                   IF e.dict /\ e.marketPair \in C16_Labels
                   THEN C16_Received(e.marketPair, e.volumeUsd) ELSE 0
            /\ Len(result[1].pairs) =
                 Cardinality({i \in 1..Len(call.response.data.marketPairs) :
                    call.response.data.marketPairs[i].marketPair \in C16_Labels})
            /\ \A i \in 1..(Len(result[1].pairs) - 1) :
                 result[1].pairs[i].volume_usd[1] >= result[1].pairs[i + 1].volume_usd[1]

\* The response lists the smaller pair first: both are returned, the larger
\* first.
C16_Witness ==
    /\ Done("fetch_aster_usd1_pairs") /\ ~result[1].raised
    /\ Len(call.response.data.marketPairs) = 2
    /\ call.response.data.marketPairs[1].marketPair = "BTC/USD1"
    /\ call.response.data.marketPairs[2].marketPair = "USD1/USDT"
    /\ Len(result[1].pairs) = 2
    /\ result[1].pairs[1].pair = "USD1/USDT"
    /\ result[1].pairs[2].pair = "BTC/USD1"

\* C17: the message format_message returns has the exchange-pairs section
\* exactly when the list of pairs is not empty, with one table line per pair
\* in the order given; the lending-market, links and stablecoin sections are
\* there in every case.
C17_PairsSectionIffPairs ==
    (Done("format_message") /\ ~result[1].raised) =>
        LET m == result[1].message
            headings == {m.sections[i] : i \in 1..Len(m.sections)}
        IN  /\ ("ASTER USD1 PAIRS" \in headings) <=> (call.aster_data # <<>>)
            /\ m.pairs_section <=> (call.aster_data # <<>>)
            /\ m.pairs = [i \in 1..Len(call.aster_data) |-> call.aster_data[i].pair]
            /\ {"USD1 MARKETS", "LINKS", "STABLECOINS"} \subseteq headings
            /\ Len(m.markets) = Len(call.usd1_data)
            /\ Len(m.stablecoins) = Len(call.stablecoin_data)

\* A message whose two pairs are listed as given, smaller volume first, under
\* the section's heading.
C17_Witness ==
    /\ Done("format_message") /\ ~result[1].raised
    /\ Len(call.aster_data) = 2
    /\ result[1].message.pairs = <<"BTC/USD1", "USD1/USDT">>
    /\ result[1].message.sections =
         <<"USD1 MARKETS", "LINKS", "STABLECOINS", "ASTER USD1 PAIRS">>

C19_Shown(x) ==
    CASE x = None -> "N/A"
      [] x = Amount(FALSE, 0, 0) -> "0.00"
      [] x = Amount(FALSE, 0, 999) -> "999.00"
      [] x = Amount(FALSE, 0, 1000) -> "1.00K"
      [] x = Amount(FALSE, 0, 1125) -> "1.12K"
      [] x = Amount(FALSE, 0, 1234) -> "1.23K"
      [] x = Amount(FALSE, 0, 1236) -> "1.24K"
      [] x = Amount(FALSE, 0, 1500) -> "1.50K"
      [] x = Amount(FALSE, 0, 999999) -> "1000.00K"
      [] x = Amount(FALSE, 1, 0) -> "1.00M"
      [] x = Amount(FALSE, 2, 500000) -> "2.50M"
      [] x = Amount(FALSE, 999, 999999) -> "1000.00M"
      [] x = Amount(FALSE, 1000, 0) -> "1.00B"
      [] x = Amount(FALSE, 3200, 0) -> "3.20B"
      [] x = Amount(FALSE, 999999, 999999) -> "1000.00B"
      [] x = Amount(FALSE, 1000000, 0) -> "1.00T"
      [] x = Amount(FALSE, 3200000, 0) -> "3.20T"
      [] x = Amount(TRUE, 0, 5000) -> "-5000.00"
      [] x = Amount(TRUE, 2, 500000) -> "-2500000.00"

\* C19: compact_amount gives "N/A" for null; an amount at or above 1e3 is
\* divided by the largest of 1e12 (T), 1e9 (B), 1e6 (M), 1e3 (K) it reaches
\* and takes that letter, the threshold itself included; an amount below 1e3
\* is shown as it is, without a letter.
C19_CompactAmount ==
    Done("compact_amount") => result[1] = C19_Shown(call.x)

\* A threshold takes its own letter: one million is "1.00M".
C19_Witness ==
    /\ Done("compact_amount")
    /\ call.x = Amount(FALSE, 1, 0)
    /\ result[1] = "1.00M"

\* The attempt that first succeeds, counted from 1; 0 when none does.
C20_FirstSuccess ==
    IF call.outcomes[1] = "ok" THEN 1
    ELSE IF call.outcomes[2] = "ok" THEN 2
    ELSE IF call.outcomes[3] = "ok" THEN 3
    ELSE 0

\* C20: on the same outcomes fetch_with_retry ends as fetch_json does: as
\* many attempts (three at most), the same sleeps between them (1 s, then
\* 2 s, none after the last attempt), the first success returned or the last
\* failure raised.
C20_SameBackoffShape ==
    (Done("fetch_json") \/ Done("fetch_with_retry")) =>
        LET p == C20_FirstSuccess
            attempts == IF p = 0 THEN 3 ELSE p
        IN  /\ result[1].fn = call.fn
            /\ result[1].attempts = attempts
            /\ result[1].sleeps = SubSeq(<<1, 2>>, 1, attempts - 1)
            /\ result[1].result = IF p = 0 THEN "raise" ELSE "return"
            /\ result[1].returned = IF p = 0 THEN None ELSE <<p - 1>>
            /\ result[1].exc = IF p = 0 THEN <<2>> ELSE None
            /\ Done("fetch_with_retry") =>
                 result[1] = [fetch_json_call(call.outcomes) EXCEPT !.fn = "fetch_with_retry"]

\* fetch_with_retry fails twice, sleeps 1 s and 2 s, and returns the third
\* response.
C20_Witness ==
    /\ Done("fetch_with_retry")
    /\ call.outcomes = <<"fail", "fail", "ok">>
    /\ result[1].sleeps = <<1, 2>>
    /\ result[1].result = "return"

\* The vaults of the list that are the USD1 vault, by address or by symbol.
C21_Usd1Vaults ==
    {i \in 1..Len(call.vaults) :
        /\ call.vaults[i].dict
        /\ \/ call.vaults[i].address \in {Some("0xfa27"), Some("0xFA27")}
           \/ call.vaults[i].assetSymbol \in {Some("usd1"), Some("USD1")}}

\* C21: Lista asks for the vault list first; it asks for an allocation only
\* when the list was fetched and holds a USD1 vault, and then for the
\* allocation of that vault's address (of the target address when the vault
\* carries no address key); otherwise the list is its only request.
C21_AllocationKeyedByVault ==
    Done("lista.fetch_row.requests") =>
        LET requests == result[1]
        IN  /\ Len(requests) \in {1, 2}
            /\ requests[1].url = "vault/list"
            /\ (~call.list_ok \/ C21_Usd1Vaults = {}) => Len(requests) = 1
            /\ Len(requests) = 2 =>
                 /\ requests[2].url = "vault/allocation"
                 /\ call.list_ok /\ C21_Usd1Vaults # {}
                 /\ LET vault == call.vaults[FirstIndex(C21_Usd1Vaults)]
                    IN  requests[2].address =
                          IF vault.has_address THEN vault.address ELSE Some("0xfa27")

\* The sum of a sequence of numbers.
C22_Sum(values) ==
    LET sum[i \in 0..Len(values)] == IF i = 0 THEN 0 ELSE sum[i - 1] + values[i]
    IN  sum[Len(values)]

\* What a part adds to the WLFI incentive, as claimed: its rate when it is a
\* dict with a rate whose label or claim URL names Merkl or whose label names
\* the WLFI rewards; nothing otherwise.
C22_WlfiShare(part) ==
    IF /\ part.dict
       /\ part.interestRate # None
       /\ \/ part.label \in {"Merkl rewards", "MERKL"}
          \/ part.rewardClaimUrl = "https://app.merkl.xyz/"
          \/ part.label = "WLFI Rewards"
    THEN part.interestRate[1]
    ELSE 0

\* What an entry adds to an Echelon incentive, as claimed: its APR when it is
\* a dict (nothing when it has none).
C22_EchelonShare(entry) ==
    IF entry.dict /\ entry.apr # None THEN entry.apr[1] ELSE 0

\* C22: the WLFI incentive is the sum of the rates of the eligible parts and
\* of no other part; an Echelon incentive is the sum of the APRs of all dict
\* entries of its list.
C22_IncentiveEligibility ==
    /\ Done("wlfi.incentive") =>
         result[1] = C22_Sum([i \in 1..Len(call.outside_parts) |->
                                 C22_WlfiShare(call.outside_parts[i])])
    /\ Done("echelon.incentive") =>
         result[1] = C22_Sum([i \in 1..Len(call.entries) |->
                                 C22_EchelonShare(call.entries[i])])

\* A part eligible by its claim URL only is counted, and a part that names
\* the WLFI rewards in its claim URL only is not.
C22_Witness ==
    /\ Done("wlfi.incentive")
    /\ Len(call.outside_parts) = 2
    /\ call.outside_parts[1].rewardClaimUrl = "https://app.merkl.xyz/"
    /\ call.outside_parts[1].label = "Points"
    /\ call.outside_parts[2].rewardClaimUrl = "WLFI Rewards"
    /\ result[1] = 100

\* The components that request without fetch_json and fetch_with_retry.
C23_SingleAttempt ==
    \/ pc = "aster"
    \/ pc = "markets" /\ ADAPTERS[adapter] \in {"WLFI Markets", "Echelon", "Kamino"}

\* The endpoint the program is at: the phase, the adapter, its request, and
\* for the reserves of Kamino the market.
C23_Endpoint ==
    <<pc, adapter, step, IF step = "reserves" THEN stash.market ELSE 0>>

\* A step of a component that requests on its own.
C23_Step ==
    /\ \* the retry loop is outside it: no attempt counted, no sleep, before
       \* the step and after it
       retry = FreshCall /\ retry' = FreshCall
    /\ \* one GET for the endpoint: the step leaves the endpoint
       C23_Endpoint' # C23_Endpoint
    /\ \* an exception in WLFI, Echelon or Kamino ends the adapter at once
       \* with the null record
       \A n \in {"WLFI Markets", "Echelon", "Kamino"} :
          (Running(n) /\ n \notin excepted /\ n \in excepted') =>
              /\ rows' = Append(rows, [protocol |-> n, total_supplied |-> <<>>,
                                       supply_rate |-> "N/A", total_borrowed |-> <<>>,
                                       borrow_rate |-> "N/A"])
              /\ ~(pc' = "markets" /\ adapter' = adapter)
    /\ \* a failed reserves request of Kamino passes over the market: the
       \* borrowed sum stays, and the loop goes on or the record is returned
       ("Kamino" \notin skipped /\ "Kamino" \in skipped') =>
          /\ Running("Kamino") /\ step = "reserves"
          /\ IF stash.market < 3
             THEN /\ pc' = pc /\ adapter' = adapter /\ step' = "reserves"
                  /\ stash' = [stash EXCEPT !.market = @ + 1]
             ELSE /\ Len(rows') = Len(rows) + 1
                  /\ rows'[Len(rows')].protocol = "Kamino"
                  /\ rows'[Len(rows')].total_borrowed = <<stash.tot_borrow>>
    /\ \* the exchange pairs: the message is formatted next, or main ends
       \* with 1 and nothing posted
       pc = "aster" =>
          /\ pc' \in {"format", "done"}
          /\ pc' = "done" => (exit_code' = <<1>> /\ failure' = "aster" /\ posts' = 0)

\* C23: only the requests made through fetch_json and fetch_with_retry are
\* retried: a retry loop counts attempts or sleeps only in JustLend, in Lista
\* and in the stablecoin client, and WLFI, Echelon, Kamino and the
\* exchange-pairs client make one GET per endpoint, never sleep, and go from
\* a failure straight to its outcome.
C23_RetryOnlyThroughHelpers ==
    [][/\ retry # FreshCall =>
            (pc = "stablecoins" \/ Running("JustLend") \/ Running("Lista"))
       /\ C23_SingleAttempt => C23_Step]_vars

\* A run in which WLFI and Echelon failed, a reserves request of Kamino was
\* passed over, and the failure of the exchange pairs ended main.
C23_Witness ==
    /\ pc = "done" /\ failure = "aster"
    /\ {"WLFI Markets", "Echelon"} \subseteq excepted
    /\ "Kamino" \in skipped /\ "Kamino" \notin excepted
    /\ exit_code = <<1>>

====
